---- MODULE Spec2Model ----
(***************************************************************************)
(* A model of the chronox date/time library: the immutable ChronoDate      *)
(* value (core/ChronoDate.ts), its validation rules (utils/validation.ts), *)
(* calendar arithmetic (core/arithmetic.ts), comparison                    *)
(* (core/comparison.ts), the ISO parser (parse/iso.ts), the factory        *)
(* helpers (core/factory.ts) and the pattern formatter (format/tokens.ts   *)
(* and the format engine with its cache of compiled formatters).           *)
(*                                                                         *)
(* Numbers.  A JavaScript time value is a count of milliseconds that does  *)
(* not fit the 32-bit integers of the model checker, so a time value is    *)
(* kept in mixed radix as [day, ms]: day = floor(t / 86400000) and         *)
(* ms = t mod 86400000.  Two time values are equal iff their records are.  *)
(* Texts are sequences of one-character strings.                           *)
(***************************************************************************)
EXTENDS Integers, Sequences, FiniteSets, TLC

\* heap: the values the caller holds; res: the last call and its outcome;
\* formatterCache: the entries [key, parts] of the Map formatterCache;
\* tokenPatternLastIndex: TOKEN_PATTERN.lastIndex; callers: the calls of
\* compileFormatter that are followed turn by turn
VARIABLES heap, res, formatterCache, tokenPatternLastIndex, callers

vars == <<heap, res, formatterCache, tokenPatternLastIndex, callers>>

(***************************************************************************)
(* Bounds of the model.                                                    *)
(***************************************************************************)
\* number of values the caller keeps alive
MaxValues == 2
\* amounts given to the add and subtract operations range over -MaxN..MaxN
MaxN == 2
\* min and max are called with up to MaxArgs arguments
MaxArgs == 2
\* the formatter cache holds up to MaxCache compiled patterns
MaxCache == 2

(***************************************************************************)
(* utils/constants.ts                                                      *)
(***************************************************************************)
MILLISECONDS_IN_SECOND == 1000
MILLISECONDS_IN_MINUTE == 60 * MILLISECONDS_IN_SECOND
MILLISECONDS_IN_HOUR == 60 * MILLISECONDS_IN_MINUTE
MILLISECONDS_IN_DAY == 24 * MILLISECONDS_IN_HOUR

(***************************************************************************)
(* The host's Date object, after ECMA-262 (Date objects).  Only the UTC    *)
(* half is used by the library.                                            *)
(***************************************************************************)
\* ECMA-262 DaysInYear(y), with the leap rule of the standard
JsDaysInYear(y) ==
  IF y % 4 # 0 THEN 365
  ELSE IF y % 100 # 0 THEN 366
  ELSE IF y % 400 # 0 THEN 365
  ELSE 366

\* ECMA-262 DayFromYear(y): day number of 1 January of year y
JsDayFromYear(y) ==
  365 * (y - 1970) + ((y - 1969) \div 4) - ((y - 1901) \div 100)
    + ((y - 1601) \div 400)

\* days before the first of month index m (0..11) within year y
JsDaysBeforeMonth(y, m) ==
  LET cum == <<0, 31, 59, 90, 120, 151, 181, 212, 243, 273, 304, 334>>
  IN cum[m + 1] + (IF m >= 2 /\ JsDaysInYear(y) = 366 THEN 1 ELSE 0)

\* ECMA-262 MakeDay(year, month, date): month is 0-based and may lie outside
\* 0..11, date may lie outside the month; both carry
JsMakeDay(year, month, date) ==
  LET ym == year + (month \div 12)
      mn == month % 12
  IN JsDayFromYear(ym) + JsDaysBeforeMonth(ym, mn) + date - 1

\* ECMA-262 MakeTime(hour, min, sec, ms) for fields within one day
JsMakeTime(hour, min, sec, ms) ==
  hour * MILLISECONDS_IN_HOUR + min * MILLISECONDS_IN_MINUTE
    + sec * MILLISECONDS_IN_SECOND + ms

\* ECMA-262 TimeClip: a time value beyond 8.64e15 ms (100,000,000 days) is NaN
JsTimeClip(t) ==
  IF t.day < -100000000 \/ t.day > 100000000
       \/ (t.day = 100000000 /\ t.ms > 0)
  THEN [nan |-> TRUE, day |-> 0, ms |-> 0]
  ELSE [nan |-> FALSE, day |-> t.day, ms |-> t.ms]

\* MakeDate(day, time) with the carry of a time outside one day
JsMakeDate(day, time) ==
  [day |-> day + (time \div MILLISECONDS_IN_DAY),
   ms |-> time % MILLISECONDS_IN_DAY]

\* new Date(timestamp)
NewDate(t) == JsTimeClip(t)

\* ECMA-262 YearFromTime: the largest y with DayFromYear(y) <= Day(t), found
\* from an estimate that is off by one year at most
JsYearFromDay(d) ==
  LET era == d \div 146097
      rest == d % 146097
      approx == 1970 + era * 400 + ((rest * 400) \div 146097)
  IN IF JsDayFromYear(approx) > d THEN approx - 1
     ELSE IF JsDayFromYear(approx + 1) <= d THEN approx + 1
     ELSE approx

\* ECMA-262 MonthFromTime by the day within the year, 0-based
JsMonthInYear(dwy, leap) ==
  IF dwy < 31 THEN 0
  ELSE IF dwy < 59 + leap THEN 1
  ELSE IF dwy < 90 + leap THEN 2
  ELSE IF dwy < 120 + leap THEN 3
  ELSE IF dwy < 151 + leap THEN 4
  ELSE IF dwy < 181 + leap THEN 5
  ELSE IF dwy < 212 + leap THEN 6
  ELSE IF dwy < 243 + leap THEN 7
  ELSE IF dwy < 273 + leap THEN 8
  ELSE IF dwy < 304 + leap THEN 9
  ELSE IF dwy < 334 + leap THEN 10
  ELSE 11

JsMonthFromDay(d) ==
  LET y == JsYearFromDay(d)
  IN JsMonthInYear(d - JsDayFromYear(y),
                   IF JsDaysInYear(y) = 366 THEN 1 ELSE 0)

\* ECMA-262 DateFromTime, 1-based day of the month
JsDateFromDay(d) ==
  LET y == JsYearFromDay(d)
      dwy == d - JsDayFromYear(y)
      m == JsMonthInYear(dwy, IF JsDaysInYear(y) = 366 THEN 1 ELSE 0)
  IN dwy - JsDaysBeforeMonth(y, m) + 1

getUTCFullYear(n) == JsYearFromDay(n.day)
getUTCMonth(n) == JsMonthFromDay(n.day)
getUTCDate(n) == JsDateFromDay(n.day)
getUTCHours(n) == n.ms \div MILLISECONDS_IN_HOUR
getUTCMinutes(n) == (n.ms \div MILLISECONDS_IN_MINUTE) % 60
getUTCSeconds(n) == (n.ms \div MILLISECONDS_IN_SECOND) % 60
getUTCMilliseconds(n) == n.ms % MILLISECONDS_IN_SECOND

\* Date.prototype.setUTCDate(v): MakeDay(Year, Month, v), time within day kept
setUTCDate(n, v) ==
  JsTimeClip([day |-> JsMakeDay(getUTCFullYear(n), getUTCMonth(n), v),
              ms |-> n.ms])

\* Date.prototype.setUTCMonth(m): MakeDay(Year, m, Date); a day the target
\* month does not have runs over into the next month
setUTCMonth(n, m) ==
  JsTimeClip([day |-> JsMakeDay(getUTCFullYear(n), m, getUTCDate(n)),
              ms |-> n.ms])

\* Date.prototype.setUTCFullYear(y): MakeDay(y, Month, Date)
setUTCFullYear(n, y) ==
  JsTimeClip([day |-> JsMakeDay(y, getUTCMonth(n), getUTCDate(n)),
              ms |-> n.ms])

\* Date.prototype.setUTCHours(h, m, s, ms)
setUTCHours(n, h, m, s, ms) ==
  JsTimeClip(JsMakeDate(n.day, JsMakeTime(h, m, s, ms)))

\* Date.UTC(year, month, date, h, min, s, ms): a year in 0..99 means 1900+year
DateUTC(year, month, date, h, min, s, ms) ==
  LET yr == IF 0 <= year /\ year <= 99 THEN 1900 + year ELSE year
  IN JsTimeClip(JsMakeDate(JsMakeDay(yr, month, date),
                           JsMakeTime(h, min, s, ms)))

(***************************************************************************)
(* utils/validation.ts                                                     *)
(***************************************************************************)
isLeapYear(year) ==
  (year % 4 = 0 /\ year % 100 # 0) \/ year % 400 = 0

\* February has 28 days in every year
getDaysInMonthNoLeap(year, month) ==
  LET daysInMonth == <<31, 28, 31, 30, 31, 30, 31, 31, 30, 31, 30, 31>>
  IN IF month \in 1..12 THEN daysInMonth[month] ELSE 0

getDaysInMonth(year, month) ==
  LET daysInMonth == <<31, 28, 31, 30, 31, 30, 31, 31, 30, 31, 30, 31>>
  IN IF month = 2 /\ isLeapYear(year) THEN 29
     ELSE IF month \in 1..12 THEN daysInMonth[month] ELSE 0

\* the day is not held against the length of the month
isValidDateAnyDay(year, month, day) ==
  IF month < 1 \/ month > 12 THEN FALSE
  ELSE IF day < 1 THEN FALSE
  ELSE day <= 31

isValidDate(year, month, day) ==
  IF month < 1 \/ month > 12 THEN FALSE
  ELSE IF day < 1 THEN FALSE
  ELSE day <= getDaysInMonth(year, month)

isValidTime(hour, minute, second, millisecond) ==
  /\ hour >= 0
  /\ hour <= 23
  /\ minute >= 0
  /\ minute <= 59
  /\ second >= 0
  /\ second <= 59
  /\ millisecond >= 0
  /\ millisecond <= 999

(***************************************************************************)
(* core/ChronoDate.ts                                                      *)
(***************************************************************************)
UTC == <<"U", "T", "C">>

\* the placeholder carried by a result that is an error
NoValue ==
  [year |-> 0, month |-> 0, day |-> 0, hour |-> 0, minute |-> 0,
   second |-> 0, millisecond |-> 0, timestamp |-> [day |-> 0, ms |-> 0],
   timezone |-> << >>]

\* the outcome of a call: the value returned, or the error thrown with the
\* fixed head of its message
Ok(v) == [err |-> "none", msg |-> "", val |-> v]
Throw(e, m) == [err |-> e, msg |-> m, val |-> NoValue]

\* new ChronoDateImpl(...): validate, copy the fields, derive the timestamp
ChronoDateImpl(year, month, day, hour, minute, second, millisecond, timezone) ==
  IF ~isValidDate(year, month, day)
  THEN Throw("ChronoError", "Invalid date")
  ELSE IF ~isValidTime(hour, minute, second, millisecond)
  THEN Throw("ChronoError", "Invalid time")
  ELSE LET date == DateUTC(year, month - 1, day, hour, minute, second,
                           millisecond)
       IN Ok([year |-> year, month |-> month, day |-> day, hour |-> hour,
              minute |-> minute, second |-> second,
              millisecond |-> millisecond,
              timestamp |-> [day |-> date.day, ms |-> date.ms],
              timezone |-> timezone])

\* date.toNative()
toNative(date) == NewDate(date.timestamp)

\* dateFromNative(date, timezone): an invalid Date reads NaN in every field
\* and fails the validation of the constructor
dateFromNative(native, timezone) ==
  IF native.nan THEN Throw("ChronoError", "Invalid date")
  ELSE ChronoDateImpl(getUTCFullYear(native), getUTCMonth(native) + 1,
                      getUTCDate(native), getUTCHours(native),
                      getUTCMinutes(native), getUTCSeconds(native),
                      getUTCMilliseconds(native), timezone)

dateFromTimestamp(timestamp, timezone) ==
  dateFromNative(NewDate(timestamp), timezone)

dateFromComponents(year, month, day, hour, minute, second, millisecond, timezone) ==
  ChronoDateImpl(year, month, day, hour, minute, second, millisecond, timezone)

\* an optional property: << >> when undefined, <<x>> when set to x
Undefined == << >>
Some(x) == <<x>>

\* the day of the merged fields is brought into the merged month
cloneDateClamped(date, modifications) ==
  LET pick(o, own) == IF o = Undefined THEN own ELSE o[1]
      year == pick(modifications.year, date.year)
      month == pick(modifications.month, date.month)
      day == pick(modifications.day, date.day)
      last == getDaysInMonth(year, month)
  IN ChronoDateImpl(year, month,
                    IF last > 0 /\ day > last THEN last ELSE day,
                    pick(modifications.hour, date.hour),
                    pick(modifications.minute, date.minute),
                    pick(modifications.second, date.second),
                    pick(modifications.millisecond, date.millisecond),
                    pick(modifications.timezone, date.timezone))

\* cloneDate(date, modifications): each field is modifications?.f ?? date.f
cloneDate(date, modifications) ==
  LET pick(o, own) == IF o = Undefined THEN own ELSE o[1]
  IN ChronoDateImpl(pick(modifications.year, date.year),
                    pick(modifications.month, date.month),
                    pick(modifications.day, date.day),
                    pick(modifications.hour, date.hour),
                    pick(modifications.minute, date.minute),
                    pick(modifications.second, date.second),
                    pick(modifications.millisecond, date.millisecond),
                    pick(modifications.timezone, date.timezone))

(***************************************************************************)
(* core/arithmetic.ts                                                      *)
(***************************************************************************)
\* timestamp + n * unit for a unit that divides the day, in mixed radix
TimestampPlus(timestamp, n, unit) ==
  LET perDay == MILLISECONDS_IN_DAY \div unit
      total == timestamp.ms + (n % perDay) * unit
  IN [day |-> timestamp.day + (n \div perDay) + (total \div MILLISECONDS_IN_DAY),
      ms |-> total % MILLISECONDS_IN_DAY]

addDays(date, days) ==
  LET native == toNative(date)
  IN dateFromNative(setUTCDate(native, getUTCDate(native) + days),
                    date.timezone)

addMonths(date, months) ==
  LET native == toNative(date)
  IN dateFromNative(setUTCMonth(native, getUTCMonth(native) + months),
                    date.timezone)

addYears(date, years) ==
  LET native == toNative(date)
  IN dateFromNative(setUTCFullYear(native, getUTCFullYear(native) + years),
                    date.timezone)

addHours(date, hours) ==
  dateFromNative(NewDate(TimestampPlus(date.timestamp, hours,
                                       MILLISECONDS_IN_HOUR)),
                 date.timezone)

addMinutes(date, minutes) ==
  dateFromNative(NewDate(TimestampPlus(date.timestamp, minutes,
                                       MILLISECONDS_IN_MINUTE)),
                 date.timezone)

addSeconds(date, seconds) ==
  dateFromNative(NewDate(TimestampPlus(date.timestamp, seconds,
                                       MILLISECONDS_IN_SECOND)),
                 date.timezone)

addMilliseconds(date, milliseconds) ==
  dateFromNative(NewDate(TimestampPlus(date.timestamp, milliseconds, 1)),
                 date.timezone)

addWeeks(date, weeks) == addDays(date, weeks * 7)

\* if (duration.f): the property is set and is not zero
Truthy(o) == o # Undefined /\ o[1] # 0

\* one step of addDuration: result = add(result, duration.f) when the field is
\* truthy; an error thrown by an earlier step ends the call
DurationStep(r, o, unit) ==
  IF r.err # "none" THEN r
  ELSE IF Truthy(o)
    THEN CASE unit = "years" -> addYears(r.val, o[1])
           [] unit = "months" -> addMonths(r.val, o[1])
           [] unit = "weeks" -> addWeeks(r.val, o[1])
           [] unit = "days" -> addDays(r.val, o[1])
           [] unit = "hours" -> addHours(r.val, o[1])
           [] unit = "minutes" -> addMinutes(r.val, o[1])
           [] unit = "seconds" -> addSeconds(r.val, o[1])
           [] unit = "milliseconds" -> addMilliseconds(r.val, o[1])
  ELSE r

\* the days are added before the months
addDurationDaysFirst(date, duration) ==
  LET r0 == Ok(date)
      r1 == DurationStep(r0, duration.years, "years")
      r2 == DurationStep(r1, duration.days, "days")
      r3 == DurationStep(r2, duration.months, "months")
      r4 == DurationStep(r3, duration.weeks, "weeks")
      r5 == DurationStep(r4, duration.hours, "hours")
      r6 == DurationStep(r5, duration.minutes, "minutes")
      r7 == DurationStep(r6, duration.seconds, "seconds")
  IN DurationStep(r7, duration.milliseconds, "milliseconds")

addDuration(date, duration) ==
  LET r0 == Ok(date)
      r1 == DurationStep(r0, duration.years, "years")
      r2 == DurationStep(r1, duration.months, "months")
      r3 == DurationStep(r2, duration.weeks, "weeks")
      r4 == DurationStep(r3, duration.days, "days")
      r5 == DurationStep(r4, duration.hours, "hours")
      r6 == DurationStep(r5, duration.minutes, "minutes")
      r7 == DurationStep(r6, duration.seconds, "seconds")
  IN DurationStep(r7, duration.milliseconds, "milliseconds")

subtractDays(date, days) == addDays(date, -days)

subtractMonths(date, months) == addMonths(date, -months)

subtractYears(date, years) == addYears(date, -years)

subtractDuration(date, duration) ==
  LET neg(o) == IF Truthy(o) THEN Some(-o[1]) ELSE Undefined
      negated == [years |-> neg(duration.years),
                  months |-> neg(duration.months),
                  weeks |-> neg(duration.weeks),
                  days |-> neg(duration.days),
                  hours |-> neg(duration.hours),
                  minutes |-> neg(duration.minutes),
                  seconds |-> neg(duration.seconds),
                  milliseconds |-> neg(duration.milliseconds)]
  IN addDuration(date, negated)

(***************************************************************************)
(* core/comparison.ts.  A number that may not fit the integers of the      *)
(* checker is kept as hi * per + lo with 0 <= lo < per.                    *)
(***************************************************************************)
MILLISECONDS_IN_WEEK == 7 * MILLISECONDS_IN_DAY

Number(hi, lo, per) == [hi |-> hi, lo |-> lo, per |-> per]

Integer(n) == Number(n, 0, 1)

\* a < b for timestamps
Less(a, b) == a.day < b.day \/ (a.day = b.day /\ a.ms < b.ms)

\* b - a for timestamps, in milliseconds as [day, ms]
Minus(b, a) ==
  LET d == b.ms - a.ms
  IN [day |-> b.day - a.day + (d \div MILLISECONDS_IN_DAY),
      ms |-> d % MILLISECONDS_IN_DAY]

\* Math.abs(x) for milliseconds as [day, ms]
AbsMs(x) ==
  IF x.day >= 0 THEN x
  ELSE IF x.ms = 0 THEN [day |-> -x.day, ms |-> 0]
  ELSE [day |-> -x.day - 1, ms |-> MILLISECONDS_IN_DAY - x.ms]

\* Math.abs(n) for a number
Abs(n) ==
  IF n.hi >= 0 THEN n
  ELSE IF n.lo = 0 THEN Number(-n.hi, 0, n.per)
  ELSE Number(-n.hi - 1, n.per - n.lo, n.per)

\* Math.floor(msDiff / unit) for a unit that divides the day
FloorDiv(msDiff, unit) ==
  Number(msDiff.day, msDiff.ms \div unit, MILLISECONDS_IN_DAY \div unit)

isBefore(date1, date2) == Less(date1.timestamp, date2.timestamp)

isAfter(date1, date2) == Less(date2.timestamp, date1.timestamp)

isSame(date1, date2, unit) ==
  CASE unit = "year" -> date1.year = date2.year
    [] unit = "month" ->
         date1.year = date2.year /\ date1.month = date2.month
    [] unit = "day" ->
         /\ date1.year = date2.year
         /\ date1.month = date2.month
         /\ date1.day = date2.day
    [] unit = "hour" ->
         /\ date1.year = date2.year
         /\ date1.month = date2.month
         /\ date1.day = date2.day
         /\ date1.hour = date2.hour
    [] unit = "minute" ->
         /\ date1.year = date2.year
         /\ date1.month = date2.month
         /\ date1.day = date2.day
         /\ date1.hour = date2.hour
         /\ date1.minute = date2.minute
    [] unit = "second" ->
         /\ date1.year = date2.year
         /\ date1.month = date2.month
         /\ date1.day = date2.day
         /\ date1.hour = date2.hour
         /\ date1.minute = date2.minute
         /\ date1.second = date2.second
    [] unit = "millisecond" -> date1.timestamp = date2.timestamp
    [] unit = "week" ->
         LET diff == AbsMs(Minus(date1.timestamp, date2.timestamp))
             weeksDiff == diff.day \div 7
         IN weeksDiff = 0
    [] OTHER -> date1.timestamp = date2.timestamp

isSameOrBefore(date1, date2) == ~Less(date2.timestamp, date1.timestamp)

isSameOrAfter(date1, date2) == ~Less(date1.timestamp, date2.timestamp)

isBetween(date, start, end) ==
  /\ ~Less(date.timestamp, start.timestamp)
  /\ ~Less(end.timestamp, date.timestamp)

\* months and years are the elapsed days over 30 and over 365
diffElapsed(date1, date2, unit) ==
  LET msDiff == Minus(date2.timestamp, date1.timestamp)
  IN CASE unit = "second" -> FloorDiv(msDiff, MILLISECONDS_IN_SECOND)
       [] unit = "minute" -> FloorDiv(msDiff, MILLISECONDS_IN_MINUTE)
       [] unit = "hour" -> FloorDiv(msDiff, MILLISECONDS_IN_HOUR)
       [] unit = "day" -> FloorDiv(msDiff, MILLISECONDS_IN_DAY)
       [] unit = "week" -> Integer(msDiff.day \div 7)
       [] unit = "month" -> Integer(msDiff.day \div 30)
       [] unit = "year" -> Integer(msDiff.day \div 365)
       [] OTHER -> FloorDiv(msDiff, 1)

diff(date1, date2, unit) ==
  LET msDiff == Minus(date2.timestamp, date1.timestamp)
  IN CASE unit = "millisecond" -> FloorDiv(msDiff, 1)
       [] unit = "second" -> FloorDiv(msDiff, MILLISECONDS_IN_SECOND)
       [] unit = "minute" -> FloorDiv(msDiff, MILLISECONDS_IN_MINUTE)
       [] unit = "hour" -> FloorDiv(msDiff, MILLISECONDS_IN_HOUR)
       [] unit = "day" -> FloorDiv(msDiff, MILLISECONDS_IN_DAY)
       \* a week is seven whole days
       [] unit = "week" -> Integer(msDiff.day \div 7)
       [] unit = "month" ->
            LET months == (date2.year - date1.year) * 12
                            + (date2.month - date1.month)
            IN Integer(IF date2.day < date1.day THEN months - 1 ELSE months)
       [] unit = "year" ->
            LET years == date2.year - date1.year
            IN Integer(IF date2.month < date1.month
                            \/ (date2.month = date1.month
                                  /\ date2.day < date1.day)
                       THEN years - 1 ELSE years)
       [] OTHER -> FloorDiv(msDiff, 1)

diffAbs(date1, date2, unit) == Abs(diff(date1, date2, unit))

\* dates.reduce((earliest, current) => isBefore(current, earliest) ? current
\* : earliest) without a seed: the first date starts the fold
RECURSIVE reduceEarliest(_, _)
reduceEarliest(dates, earliest) ==
  IF dates = << >> THEN earliest
  ELSE reduceEarliest(Tail(dates),
                      IF isBefore(Head(dates), earliest)
                      THEN Head(dates) ELSE earliest)

\* dates.reduce((latest, current) => isAfter(current, latest) ? current
\* : latest)
RECURSIVE reduceLatest(_, _)
reduceLatest(dates, latest) ==
  IF dates = << >> THEN latest
  ELSE reduceLatest(Tail(dates),
                    IF isAfter(Head(dates), latest)
                    THEN Head(dates) ELSE latest)

\* the fold keeps the later date
minLatest(dates) ==
  IF Len(dates) = 0
  THEN Throw("Error", "Cannot find minimum of empty array")
  ELSE Ok(reduceLatest(Tail(dates), Head(dates)))

min(dates) ==
  IF Len(dates) = 0
  THEN Throw("Error", "Cannot find minimum of empty array")
  ELSE Ok(reduceEarliest(Tail(dates), Head(dates)))

max(dates) ==
  IF Len(dates) = 0
  THEN Throw("Error", "Cannot find maximum of empty array")
  ELSE Ok(reduceLatest(Tail(dates), Head(dates)))

(***************************************************************************)
(* core/factory.ts, for an input that is already a ChronoDate              *)
(***************************************************************************)
startOfDay(input) ==
  LET date == input
      native == toNative(date)
  IN dateFromNative(setUTCHours(native, 0, 0, 0, 0), date.timezone)

endOfDay(input) ==
  LET date == input
      native == toNative(date)
  IN dateFromNative(setUTCHours(native, 23, 59, 59, 999), date.timezone)

(***************************************************************************)
(* Text: String.prototype helpers over sequences of characters             *)
(***************************************************************************)
DigitChars == <<"0", "1", "2", "3", "4", "5", "6", "7", "8", "9">>

\* \d
IsDigit(c) == \E k \in 1..10 : DigitChars[k] = c

DigitValue(c) == (CHOOSE k \in 1..10 : DigitChars[k] = c) - 1

\* Number.prototype.toString() of an integer
RECURSIVE NatToString(_)
NatToString(n) ==
  IF n < 10 THEN <<DigitChars[n + 1]>>
  ELSE NatToString(n \div 10) \o <<DigitChars[(n % 10) + 1]>>

NumToString(n) == IF n < 0 THEN <<"-">> \o NatToString(-n) ELSE NatToString(n)

\* String.prototype.padStart(length, ch) and padEnd(length, ch)
RECURSIVE padStart(_, _, _)
padStart(s, length, ch) ==
  IF Len(s) >= length THEN s ELSE padStart(<<ch>> \o s, length, ch)

\* the fraction is not padded to three digits
padEndNothing(s, length, ch) == s

RECURSIVE padEnd(_, _, _)
padEnd(s, length, ch) ==
  IF Len(s) >= length THEN s ELSE padEnd(s \o <<ch>>, length, ch)

\* parseInt(s, 10) of a text of digits
RECURSIVE parseInt(_)
parseInt(s) ==
  IF Len(s) = 0 THEN 0
  ELSE parseInt(SubSeq(s, 1, Len(s) - 1)) * 10 + DigitValue(s[Len(s)])

\* every character of s[from..to] is a digit
AllDigits(s, from, to) == \A k \in from..to : IsDigit(s[k])

\* s.endsWith(suffix) for a one-character suffix
endsWith(s, c) == Len(s) >= 1 /\ s[Len(s)] = c

\* s.slice(0, -k)
sliceEnd(s, k) == SubSeq(s, 1, Len(s) - k)

\* utils/validation.ts padZero
padZero(num, length) == padStart(NumToString(num), length, "0")

\* ChronoDateImpl.toISOString
toISOString(this) ==
  LET date == padZero(this.year, 4) \o <<"-">> \o padZero(this.month, 2)
                \o <<"-">> \o padZero(this.day, 2)
      time == padZero(this.hour, 2) \o <<":">> \o padZero(this.minute, 2)
                \o <<":">> \o padZero(this.second, 2)
      ms == IF this.millisecond > 0
            THEN <<".">> \o padZero(this.millisecond, 3) ELSE << >>
  IN date \o <<"T">> \o time \o ms \o <<"Z">>

\* /^\d{4}-\d{2}-\d{2}$/
MatchesDate(s) ==
  /\ Len(s) = 10
  /\ AllDigits(s, 1, 4) /\ s[5] = "-"
  /\ AllDigits(s, 6, 7) /\ s[8] = "-"
  /\ AllDigits(s, 9, 10)

\* /([+-]\d{2}:\d{2})$/
MatchesOffsetAtEnd(s) ==
  /\ Len(s) >= 6
  /\ LET o == SubSeq(s, Len(s) - 5, Len(s))
     IN /\ o[1] \in {"+", "-"}
        /\ AllDigits(o, 2, 3) /\ o[4] = ":"
        /\ AllDigits(o, 5, 6)

\* /^(\d{2}):(\d{2}):(\d{2})(?:\.(\d{1,3}))?$/
MatchesTime(s) ==
  /\ Len(s) >= 8
  /\ AllDigits(s, 1, 2) /\ s[3] = ":"
  /\ AllDigits(s, 4, 5) /\ s[6] = ":"
  /\ AllDigits(s, 7, 8)
  /\ \/ Len(s) = 8
     \/ /\ Len(s) \in 10..12
        /\ s[9] = "."
        /\ AllDigits(s, 10, Len(s))

\* utils/validation.ts isValidISOString:
\* /^\d{4}-\d{2}-\d{2}(T\d{2}:\d{2}:\d{2}(\.\d{1,3})?(Z|[+-]\d{2}:\d{2})?)?$/
isValidISOString(str) ==
  /\ Len(str) >= 10
  /\ MatchesDate(SubSeq(str, 1, 10))
  /\ \/ Len(str) = 10
     \/ /\ Len(str) >= 19
        /\ str[11] = "T"
        /\ MatchesTime(SubSeq(str, 12, 19))
        /\ \E frac \in 0..3 :
             LET zoneAt == IF frac = 0 THEN 20 ELSE 21 + frac
                 zone == SubSeq(str, zoneAt, Len(str))
             IN /\ Len(str) >= zoneAt - 1
                /\ frac > 0 => (str[20] = "." /\ AllDigits(str, 21, 20 + frac))
                /\ \/ zone = << >>
                   \/ zone = <<"Z">>
                   \/ Len(zone) = 6 /\ MatchesOffsetAtEnd(zone)

(***************************************************************************)
(* parse/iso.ts                                                            *)
(***************************************************************************)
\* isoString.split('T')
RECURSIVE split(_, _)
split(s, sep) ==
  IF \A k \in 1..Len(s) : s[k] # sep THEN <<s>>
  ELSE LET p == CHOOSE k \in 1..Len(s) :
                  s[k] = sep /\ \A j \in 1..(k - 1) : s[j] # sep
       IN <<SubSeq(s, 1, p - 1)>> \o split(SubSeq(s, p + 1, Len(s)), sep)

DefaultTime == <<"0", "0", ":", "0", "0", ":", "0", "0">>

parseISO(isoString) ==
  IF isoString = << >>
  THEN Throw("ParseError", "Invalid input")
  ELSE
  LET parts == split(isoString, "T")
  IN
  IF Len(parts) = 0 \/ Len(parts) > 2
  THEN Throw("ParseError", "Invalid ISO 8601 format")
  ELSE
  LET datePart == parts[1]
      \* parts[1] || '00:00:00': a missing and an empty time part both default
      timePart == IF Len(parts) < 2 \/ parts[2] = << >>
                  THEN DefaultTime ELSE parts[2]
  IN
  IF ~MatchesDate(datePart)
  THEN Throw("ParseError", "Invalid date format")
  ELSE
  LET year == parseInt(SubSeq(datePart, 1, 4))
      month == parseInt(SubSeq(datePart, 6, 7))
      day == parseInt(SubSeq(datePart, 9, 10))
  IN
  IF ~isValidDate(year, month, day)
  THEN Throw("ParseError", "Invalid date")
  ELSE
  LET isZ == endsWith(timePart, "Z")
      hasOffset == ~isZ /\ MatchesOffsetAtEnd(timePart)
      timezone == IF hasOffset
                  THEN SubSeq(timePart, Len(timePart) - 5, Len(timePart))
                  ELSE UTC
      timeStr == IF isZ THEN sliceEnd(timePart, 1)
                 ELSE IF hasOffset THEN sliceEnd(timePart, 6)
                 ELSE timePart
  IN
  IF ~MatchesTime(timeStr)
  THEN Throw("ParseError", "Invalid time format")
  ELSE
  LET hour == parseInt(SubSeq(timeStr, 1, 2))
      minute == parseInt(SubSeq(timeStr, 4, 5))
      second == parseInt(SubSeq(timeStr, 7, 8))
      millisecond == IF Len(timeStr) > 8
                     THEN parseInt(padEnd(SubSeq(timeStr, 10, Len(timeStr)),
                                          3, "0"))
                     ELSE 0
  IN
  IF ~isValidTime(hour, minute, second, millisecond)
  THEN Throw("ParseError", "Invalid time")
  ELSE dateFromComponents(year, month, day, hour, minute, second,
                          millisecond, timezone)

(***************************************************************************)
(* The host behind core/factory.ts: new Date() and new Date(string).       *)
(*   now      the reading of the clock                                     *)
(*   offset   the local time zone, minutes east of UTC                     *)
(*   lenient  whether it reads the forms the standard leaves to it         *)
(***************************************************************************)
NaNDate == [nan |-> TRUE, day |-> 0, ms |-> 0]

\* ECMA-262 Date Time String Format, YYYY-MM-DD[THH:mm[:ss[.s...]][Z|+HH:mm]]:
\* the date part, the time part without its zone, and the zone
FormatParts(s) ==
  LET date == SubSeq(s, 1, 10)
      rest == SubSeq(s, 12, Len(s))
      isZ == endsWith(rest, "Z")
      hasOffset == ~isZ /\ MatchesOffsetAtEnd(rest)
  IN [date |-> date,
      time |-> IF isZ THEN sliceEnd(rest, 1)
               ELSE IF hasOffset THEN sliceEnd(rest, 6) ELSE rest,
      zone |-> IF isZ THEN <<"Z">>
               ELSE IF hasOffset THEN SubSeq(rest, Len(rest) - 5, Len(rest))
               ELSE << >>]

\* HH:mm, HH:mm:ss or HH:mm:ss.s...
MatchesFormatTime(t) ==
  /\ Len(t) >= 5
  /\ AllDigits(t, 1, 2) /\ t[3] = ":" /\ AllDigits(t, 4, 5)
  /\ \/ Len(t) = 5
     \/ /\ Len(t) >= 8
        /\ t[6] = ":" /\ AllDigits(t, 7, 8)
        /\ \/ Len(t) = 8
           \/ Len(t) >= 10 /\ t[9] = "." /\ AllDigits(t, 10, Len(t))

\* the text has the shape of the Date Time String Format
IsFormatString(s) ==
  /\ Len(s) >= 10
  /\ MatchesDate(SubSeq(s, 1, 10))
  /\ \/ Len(s) = 10
     \/ /\ Len(s) >= 12
        /\ s[11] = "T"
        /\ MatchesFormatTime(FormatParts(s).time)

\* Date.parse(s) for a text of the format.  Element values out of bounds
\* give NaN.  A day past the end of its month (but not past 31) and a
\* fraction that is not of three digits are read by a lenient host and
\* refused by a strict one.  A time without a zone is local time; a date
\* alone is UTC.  Of the texts outside the format the parser is given only
\* those that no host reads.
DateParse(s, host) ==
  LET p == FormatParts(s)
      t == p.time
      dateOnly == Len(s) = 10
      year == parseInt(SubSeq(p.date, 1, 4))
      month == parseInt(SubSeq(p.date, 6, 7))
      day == parseInt(SubSeq(p.date, 9, 10))
      hour == IF dateOnly THEN 0 ELSE parseInt(SubSeq(t, 1, 2))
      minute == IF dateOnly THEN 0 ELSE parseInt(SubSeq(t, 4, 5))
      second == IF Len(t) >= 8 THEN parseInt(SubSeq(t, 7, 8)) ELSE 0
      frac == IF Len(t) >= 10 THEN SubSeq(t, 10, Len(t)) ELSE << >>
      ms == IF frac = << >> THEN 0
            ELSE parseInt(SubSeq(padEnd(frac, 3, "0"), 1, 3))
      zh == IF Len(p.zone) = 6 THEN parseInt(SubSeq(p.zone, 2, 3)) ELSE 0
      zm == IF Len(p.zone) = 6 THEN parseInt(SubSeq(p.zone, 5, 6)) ELSE 0
      sign == IF Len(p.zone) = 6 /\ p.zone[1] = "-" THEN -1 ELSE 1
      east == IF p.zone = << >>
              THEN (IF dateOnly THEN 0 ELSE host.offset)
              ELSE sign * (zh * 60 + zm)
      inBounds ==
        /\ month \in 1..12
        /\ day \in 1..31
        /\ \/ hour \in 0..23 /\ minute \in 0..59 /\ second \in 0..59
           \/ hour = 24 /\ minute = 0 /\ second = 0 /\ ms = 0
        /\ zh \in 0..23
        /\ zm \in 0..59
      leftToHost ==
        \/ day > getDaysInMonth(year, month)
        \/ (frac # << >> /\ Len(frac) # 3)
  IN IF ~IsFormatString(s) THEN NaNDate
     ELSE IF ~inBounds \/ (leftToHost /\ ~host.lenient) THEN NaNDate
     ELSE JsTimeClip(JsMakeDate(JsMakeDay(year, month - 1, day),
                                JsMakeTime(hour, minute, second, ms)
                                  - east * MILLISECONDS_IN_MINUTE))

(***************************************************************************)
(* core/factory.ts: createDate, now, isValid.  An input carries its type:  *)
(*   "undefined"   no input                                                *)
(*   "string"      text is the input                                       *)
(*   "number"      num is the input: num.is is "NaN", "Infinity" or        *)
(*                 "finite", and num.t the finite value                    *)
(*   "Date"        date is the input, a native Date                        *)
(*   "ChronoDate"  value is the input                                      *)
(***************************************************************************)
NaNNumber == [is |-> "NaN", t |-> [day |-> 0, ms |-> 0]]

NoInput ==
  [type |-> "undefined", text |-> << >>, num |-> NaNNumber, date |-> NaNDate,
   value |-> NoValue]

StringInput(s) == [NoInput EXCEPT !.type = "string", !.text = s]

NumberInput(n) == [NoInput EXCEPT !.type = "number", !.num = n]

NativeInput(d) == [NoInput EXCEPT !.type = "Date", !.date = d]

ValueInput(v) == [NoInput EXCEPT !.type = "ChronoDate", !.value = v]

\* !input
Falsy(input) ==
  \/ input.type = "undefined"
  \/ input.type = "string" /\ input.text = << >>
  \/ input.type = "number" /\ input.num.is = "NaN"
  \/ input.type = "number" /\ input.num.is = "finite"
       /\ input.num.t = [day |-> 0, ms |-> 0]

createDate(input, host) ==
  IF Falsy(input) THEN dateFromNative(NewDate(host.now), UTC)
  ELSE IF input.type = "string"
  THEN LET date == DateParse(input.text, host)
       IN IF date.nan THEN Throw("Error", "Invalid date string")
          ELSE dateFromNative(date, UTC)
  ELSE IF input.type = "number"
  THEN (IF input.num.is = "finite" THEN dateFromTimestamp(input.num.t, UTC)
        ELSE dateFromNative(NaNDate, UTC))
  ELSE IF input.type = "Date" THEN dateFromNative(input.date, UTC)
  ELSE Ok(input.value)

now(host) == dateFromNative(NewDate(host.now), UTC)

isValid(input, host) ==
  IF Falsy(input) THEN FALSE
  ELSE IF input.type = "string" THEN ~DateParse(input.text, host).nan
  ELSE IF input.type = "number" THEN input.num.is = "finite"
  ELSE IF input.type = "Date" THEN ~input.date.nan
  ELSE TRUE

(***************************************************************************)
(* The pattern formatter: utils/constants.ts names, format/tokens.ts and   *)
(* the format engine (compileFormatter, format and the formatter cache).   *)
(***************************************************************************)
MONTH_NAMES ==
  << <<"J", "a", "n", "u", "a", "r", "y">>,
     <<"F", "e", "b", "r", "u", "a", "r", "y">>,
     <<"M", "a", "r", "c", "h">>, <<"A", "p", "r", "i", "l">>,
     <<"M", "a", "y">>, <<"J", "u", "n", "e">>, <<"J", "u", "l", "y">>,
     <<"A", "u", "g", "u", "s", "t">>,
     <<"S", "e", "p", "t", "e", "m", "b", "e", "r">>,
     <<"O", "c", "t", "o", "b", "e", "r">>,
     <<"N", "o", "v", "e", "m", "b", "e", "r">>,
     <<"D", "e", "c", "e", "m", "b", "e", "r">> >>

MONTH_NAMES_SHORT ==
  << <<"J", "a", "n">>, <<"F", "e", "b">>, <<"M", "a", "r">>,
     <<"A", "p", "r">>, <<"M", "a", "y">>, <<"J", "u", "n">>,
     <<"J", "u", "l">>, <<"A", "u", "g">>, <<"S", "e", "p">>,
     <<"O", "c", "t">>, <<"N", "o", "v">>, <<"D", "e", "c">> >>

DAY_NAMES ==
  << <<"S", "u", "n", "d", "a", "y">>, <<"M", "o", "n", "d", "a", "y">>,
     <<"T", "u", "e", "s", "d", "a", "y">>,
     <<"W", "e", "d", "n", "e", "s", "d", "a", "y">>,
     <<"T", "h", "u", "r", "s", "d", "a", "y">>,
     <<"F", "r", "i", "d", "a", "y">>,
     <<"S", "a", "t", "u", "r", "d", "a", "y">> >>

DAY_NAMES_SHORT ==
  << <<"S", "u", "n">>, <<"M", "o", "n">>, <<"T", "u", "e">>,
     <<"W", "e", "d">>, <<"T", "h", "u">>, <<"F", "r", "i">>,
     <<"S", "a", "t">> >>

\* date.toNative().getUTCDay(): ECMA-262 WeekDay(t) = (Day(t) + 4) modulo 7
getDayOfWeek(date) == (toNative(date).day + 4) % 7

\* a % b of JavaScript for integers, b > 0: the sign is the dividend's
Remainder(a, b) == IF a >= 0 THEN a % b ELSE -((-a) % b)

\* String.prototype.replace(ch, ''): the first occurrence of ch is dropped
replaceFirst(s, ch) ==
  IF \E i \in DOMAIN s : s[i] = ch
  THEN LET i == CHOOSE k \in DOMAIN s :
                  s[k] = ch /\ \A j \in 1..(k - 1) : s[j] # ch
       IN SubSeq(s, 1, i - 1) \o SubSeq(s, i + 1, Len(s))
  ELSE s

RECURSIVE StripLeadingZeros(_)
StripLeadingZeros(s) ==
  IF Len(s) > 1 /\ s[1] = "0" THEN StripLeadingZeros(Tail(s)) ELSE s

\* Number.prototype.toString() of the integer day * 864 * 10^k + rest, with
\* 0 <= rest < 864 * 10^k: the timestamp (k = 5, rest the milliseconds in
\* the day) and the timestamp in whole seconds, rounded down (k = 2, rest
\* the seconds in the day).  The digits are computed in three limbs.
ScaledToString(day, rest, k) ==
  LET neg == day < 0
      D == IF ~neg THEN day ELSE IF rest = 0 THEN -day ELSE -day - 1
      m == IF ~neg \/ rest = 0 THEN rest ELSE 864 * 10^k - rest
      low == m % 10^k
      w == (D % 1000) * 864 + (m \div 10^k)
      top == (D \div 1000) * 864 + (w \div 1000)
      digits == StripLeadingZeros(NatToString(top) \o padZero(w % 1000, 3)
                                    \o padZero(low, k))
  IN IF neg THEN <<"-">> \o digits ELSE digits

\* Object.keys(TOKEN_HANDLERS): the tokens in the order they are written
TokenKeys ==
  << <<"Y", "Y", "Y", "Y">>, <<"Y", "Y">>, <<"M", "M", "M", "M">>,
     <<"M", "M", "M">>, <<"M", "M">>, <<"M">>, <<"D", "D">>, <<"D">>,
     <<"d", "d", "d", "d">>, <<"d", "d", "d">>, <<"d">>, <<"H", "H">>,
     <<"H">>, <<"h", "h">>, <<"h">>, <<"m", "m">>, <<"m">>, <<"s", "s">>,
     <<"s">>, <<"S", "S", "S">>, <<"S", "S">>, <<"S">>, <<"A">>, <<"a">>,
     <<"Z">>, <<"Z", "Z">>, <<"X">>, <<"x">> >>

\* TOKEN_HANDLERS[token](date); hour12 is date.hour % 12 || 12
TOKEN_HANDLERS(token, date) ==
  LET hour12 == IF Remainder(date.hour, 12) = 0 THEN 12
                ELSE Remainder(date.hour, 12)
  IN
  CASE token = <<"Y", "Y", "Y", "Y">> ->
         padZero(date.year, 4)
    [] token = <<"Y", "Y">> ->
         padZero(Remainder(date.year, 100), 2)
    [] token = <<"M", "M", "M", "M">> ->
         IF date.month \in 1..12 THEN MONTH_NAMES[date.month] ELSE << >>
    [] token = <<"M", "M", "M">> ->
         IF date.month \in 1..12 THEN MONTH_NAMES_SHORT[date.month] ELSE << >>
    [] token = <<"M", "M">> ->
         padZero(date.month, 2)
    [] token = <<"M">> ->
         NumToString(date.month)
    [] token = <<"D", "D">> ->
         padZero(date.day, 2)
    [] token = <<"D">> ->
         NumToString(date.day)
    [] token = <<"d", "d", "d", "d">> ->
         DAY_NAMES[getDayOfWeek(date) + 1]
    [] token = <<"d", "d", "d">> ->
         DAY_NAMES_SHORT[getDayOfWeek(date) + 1]
    [] token = <<"d">> ->
         NumToString(getDayOfWeek(date))
    [] token = <<"H", "H">> ->
         padZero(date.hour, 2)
    [] token = <<"H">> ->
         NumToString(date.hour)
    [] token = <<"h", "h">> ->
         padZero(hour12, 2)
    [] token = <<"h">> ->
         NumToString(hour12)
    [] token = <<"m", "m">> ->
         padZero(date.minute, 2)
    [] token = <<"m">> ->
         NumToString(date.minute)
    [] token = <<"s", "s">> ->
         padZero(date.second, 2)
    [] token = <<"s">> ->
         NumToString(date.second)
    [] token = <<"S", "S", "S">> ->
         padZero(date.millisecond, 3)
    [] token = <<"S", "S">> ->
         padZero(date.millisecond \div 10, 2)
    [] token = <<"S">> ->
         NumToString(date.millisecond \div 100)
    [] token = <<"A">> ->
         IF date.hour >= 12 THEN <<"P", "M">> ELSE <<"A", "M">>
    [] token = <<"a">> ->
         IF date.hour >= 12 THEN <<"p", "m">> ELSE <<"a", "m">>
    [] token = <<"Z">> ->
         IF date.timezone = UTC \/ date.timezone = <<"G", "M", "T">>
         THEN <<"+", "0", "0", ":", "0", "0">> ELSE date.timezone
    [] token = <<"Z", "Z">> ->
         IF date.timezone = UTC \/ date.timezone = <<"G", "M", "T">>
         THEN <<"+", "0", "0", "0", "0">> ELSE replaceFirst(date.timezone, ":")
    [] token = <<"X">> ->
         ScaledToString(date.timestamp.day,
                        date.timestamp.ms \div MILLISECONDS_IN_SECOND, 2)
    [] token = <<"x">> ->
         ScaledToString(date.timestamp.day, date.timestamp.ms, 5)

\* FORMAT_PRESETS[key], a property read of a table written as an object
\* literal: a string for a key of the table, the member of Object.prototype
\* for a key that the literal inherits ('constructor', 'toString', ...), and
\* undefined for any other key
FORMAT_PRESETS(key) ==
  LET names ==
        << <<"I", "S", "O">>, <<"I", "S", "O", "_", "D", "A", "T", "E">>,
           <<"I", "S", "O", "_", "T", "I", "M", "E">>,
           <<"R", "F", "C", "2", "8", "2", "2">>, <<"H", "T", "T", "P">>,
           <<"S", "Q", "L">>, <<"S", "H", "O", "R", "T">>,
           <<"M", "E", "D", "I", "U", "M">>, <<"L", "O", "N", "G">>,
           <<"F", "U", "L", "L">>, <<"T", "I", "M", "E">>,
           <<"T", "I", "M", "E", "_", "2", "4">>,
           <<"T", "I", "M", "E", "_", "W", "I", "T", "H", "_", "S", "E", "C", "O", "N", "D", "S">>,
           <<"D", "A", "T", "E", "T", "I", "M", "E", "_", "S", "H", "O", "R", "T">>,
           <<"D", "A", "T", "E", "T", "I", "M", "E", "_", "M", "E", "D", "I", "U", "M">>,
           <<"D", "A", "T", "E", "T", "I", "M", "E", "_", "L", "O", "N", "G">> >>
      patterns ==
        << <<"Y", "Y", "Y", "Y", "-", "M", "M", "-", "D", "D", "T", "H", "H", ":", "m", "m", ":", "s", "s", ".", "S", "S", "S", "Z">>,
           <<"Y", "Y", "Y", "Y", "-", "M", "M", "-", "D", "D">>,
           <<"H", "H", ":", "m", "m", ":", "s", "s">>,
           <<"d", "d", "d", ",", " ", "D", "D", " ", "M", "M", "M", " ", "Y", "Y", "Y", "Y", " ", "H", "H", ":", "m", "m", ":", "s", "s", " ", "Z">>,
           <<"d", "d", "d", ",", " ", "D", "D", " ", "M", "M", "M", " ", "Y", "Y", "Y", "Y", " ", "H", "H", ":", "m", "m", ":", "s", "s", " ", "[", "G", "M", "T", "]">>,
           <<"Y", "Y", "Y", "Y", "-", "M", "M", "-", "D", "D", " ", "H", "H", ":", "m", "m", ":", "s", "s">>,
           <<"M", "/", "D", "/", "Y", "Y", "Y", "Y">>,
           <<"M", "M", "M", " ", "D", ",", " ", "Y", "Y", "Y", "Y">>,
           <<"M", "M", "M", "M", " ", "D", ",", " ", "Y", "Y", "Y", "Y">>,
           <<"d", "d", "d", "d", ",", " ", "M", "M", "M", "M", " ", "D", ",", " ", "Y", "Y", "Y", "Y">>,
           <<"h", ":", "m", "m", " ", "A">>, <<"H", "H", ":", "m", "m">>,
           <<"h", ":", "m", "m", ":", "s", "s", " ", "A">>,
           <<"M", "/", "D", "/", "Y", "Y", "Y", "Y", " ", "h", ":", "m", "m", " ", "A">>,
           <<"M", "M", "M", " ", "D", ",", " ", "Y", "Y", "Y", "Y", " ", "h", ":", "m", "m", " ", "A">>,
           <<"M", "M", "M", "M", " ", "D", ",", " ", "Y", "Y", "Y", "Y", " ", "h", ":", "m", "m", " ", "A">> >>
      inherited ==
        { <<"c", "o", "n", "s", "t", "r", "u", "c", "t", "o", "r">>,
          <<"t", "o", "S", "t", "r", "i", "n", "g">>,
          <<"v", "a", "l", "u", "e", "O", "f">>,
          <<"h", "a", "s", "O", "w", "n", "P", "r", "o", "p", "e", "r", "t", "y">>,
          <<"i", "s", "P", "r", "o", "t", "o", "t", "y", "p", "e", "O", "f">>,
          <<"p", "r", "o", "p", "e", "r", "t", "y", "I", "s", "E", "n", "u", "m", "e", "r", "a", "b", "l", "e">>,
          <<"t", "o", "L", "o", "c", "a", "l", "e", "S", "t", "r", "i", "n", "g">>,
          <<"_", "_", "p", "r", "o", "t", "o", "_", "_">>,
          <<"_", "_", "d", "e", "f", "i", "n", "e", "G", "e", "t", "t", "e", "r", "_", "_">>,
          <<"_", "_", "d", "e", "f", "i", "n", "e", "S", "e", "t", "t", "e", "r", "_", "_">>,
          <<"_", "_", "l", "o", "o", "k", "u", "p", "G", "e", "t", "t", "e", "r", "_", "_">>,
          <<"_", "_", "l", "o", "o", "k", "u", "p", "S", "e", "t", "t", "e", "r", "_", "_">> }
  IN IF \E k \in DOMAIN names : names[k] = key
     THEN [is |-> "string",
           text |-> patterns[CHOOSE k \in DOMAIN names : names[k] = key]]
     ELSE IF key \in inherited THEN [is |-> "object", text |-> << >>]
     ELSE [is |-> "undefined", text |-> << >>]

\* '\x00', the character that stands in for the letters of a literal
NUL == "NUL"

\* String.prototype.slice(start, end) with 0 <= start <= end <= length
slice(s, start, end) == SubSeq(s, start + 1, end)

\* the sort of TOKEN_PATTERN, (a, b) => b.length - a.length: stable, so the
\* tokens of one length keep the order of the keys
RECURSIVE sortByLength(_, _)
sortByLength(keys, n) ==
  IF n = 0 THEN << >>
  ELSE LET HasLength(t) == Len(t) = n
       IN SelectSeq(keys, HasLength) \o sortByLength(keys, n - 1)

\* the alternation in the order of the keys, not sorted
TOKEN_PATTERN_KeyOrder == TokenKeys

\* TOKEN_PATTERN: the alternation of the tokens, the longest first
TOKEN_PATTERN == sortByLength(TokenKeys, 4)

\* no match of a regular expression
Null == [found |-> FALSE, index |-> 0, text |-> << >>, length |-> 0]

\* word occurs in str at index
OccursAt(str, index, word) ==
  /\ index + Len(word) <= Len(str)
  /\ \A k \in DOMAIN word : str[index + k] = word[k]

\* the first word of the alternation, from the k-th on, that occurs in str
\* at index; 0 when none does
RECURSIVE firstWord(_, _, _, _)
firstWord(alternation, str, index, k) ==
  IF k > Len(alternation) THEN 0
  ELSE IF OccursAt(str, index, alternation[k]) THEN k
  ELSE firstWord(alternation, str, index, k + 1)

\* RegExp.prototype.exec of an alternation of words with the g flag: the
\* search starts at lastIndex, the match is at the leftmost index where a
\* word of the alternation occurs and is the first such word in the order
\* of the alternation
RECURSIVE exec(_, _, _)
exec(alternation, str, lastIndex) ==
  IF lastIndex >= Len(str) THEN Null
  ELSE LET k == firstWord(alternation, str, lastIndex, 1)
       IN IF k = 0 THEN exec(alternation, str, lastIndex + 1)
          ELSE [found |-> TRUE, index |-> lastIndex, text |-> alternation[k],
                length |-> Len(alternation[k])]

\* String.prototype.indexOf(ch, from): -1 when ch does not occur from there
RECURSIVE indexOf(_, _, _)
indexOf(str, ch, from) ==
  IF from >= Len(str) THEN -1
  ELSE IF str[from + 1] = ch THEN from
  ELSE indexOf(str, ch, from + 1)

\* literalPattern.exec, /\[([^\]]+)\]/g: the leftmost '[' from lastIndex on
\* that has at least one character before the next ']'; text is group 1
RECURSIVE literalExec(_, _)
literalExec(str, lastIndex) ==
  LET opening == indexOf(str, "[", lastIndex)
      closing == indexOf(str, "]", opening + 1)
  IN IF opening = -1 THEN Null
     ELSE IF closing = -1 THEN Null
     ELSE IF closing = opening + 1 THEN literalExec(str, opening + 1)
     ELSE [found |-> TRUE, index |-> opening,
           text |-> slice(str, opening + 1, closing),
           length |-> closing + 1 - opening]

\* the literals of the pattern: the loop over literalPattern.exec
RECURSIVE literals(_, _)
literals(formatStr, lastIndex) ==
  LET literalMatch == literalExec(formatStr, lastIndex)
  IN IF ~literalMatch.found THEN << >>
     ELSE <<literalMatch>>
            \o literals(formatStr, literalMatch.index + literalMatch.length)

\* the pattern with its literals left as they are: tokens are looked for
\* inside the brackets too
workingStrUnmasked(formatStr, found) == formatStr

\* the pattern with every literal, brackets included, overwritten by NULs
RECURSIVE workingStr(_, _)
workingStr(formatStr, found) ==
  IF found = << >> THEN formatStr
  ELSE LET literal == Head(found)
           offset == 0
           before == slice(formatStr, 0, literal.index - offset)
           after == slice(formatStr, literal.index + literal.length - offset,
                          Len(formatStr))
       IN workingStr(before \o [k \in 1..literal.length |-> NUL] \o after,
                     Tail(found))

\* a part of a compiled formatter: a text or the handler of a token
TextPart(text) == [handler |-> FALSE, text |-> text]

HandlerPart(token) == [handler |-> TRUE, text |-> token]

\* one turn of the loop over TOKEN_PATTERN.exec(workingStr).  s holds
\* TOKEN_PATTERN.lastIndex (patternLastIndex), the local lastIndex, the
\* parts so far and whether exec has returned null
scanStep(formatStr, working, s) ==
  LET match == exec(TOKEN_PATTERN, working, s.patternLastIndex)
      token == match.text
      text == slice(formatStr, s.lastIndex, match.index)
      withText == IF match.index > s.lastIndex /\ text # << >>
                  THEN Append(s.parts, TextPart(text)) ELSE s.parts
  IN IF ~match.found THEN [s EXCEPT !.patternLastIndex = 0, !.done = TRUE]
     ELSE IF token[1] = NUL
     THEN [s EXCEPT !.patternLastIndex = match.index + match.length]
     ELSE [patternLastIndex |-> match.index + match.length,
           lastIndex |-> match.index + Len(token),
           parts |-> Append(withText, HandlerPart(token)),
           done |-> FALSE]

\* the state of the scan after TOKEN_PATTERN.lastIndex = 0
ScanStart ==
  [patternLastIndex |-> 0, lastIndex |-> 0, parts |-> << >>, done |-> FALSE]

RECURSIVE scanTokens(_, _, _)
scanTokens(formatStr, working, s) ==
  IF s.done THEN s
  ELSE scanTokens(formatStr, working, scanStep(formatStr, working, s))

\* the text left after the last token
withRemaining(formatStr, s) ==
  IF s.lastIndex < Len(formatStr)
  THEN Append(s.parts, TextPart(slice(formatStr, s.lastIndex, Len(formatStr))))
  ELSE s.parts

\* text.replace(/\[([^\]]+)\]/g, '$1')
RECURSIVE restoreLiterals(_, _)
restoreLiterals(text, lastIndex) ==
  LET m == literalExec(text, lastIndex)
  IN IF ~m.found THEN slice(text, lastIndex, Len(text))
     ELSE slice(text, lastIndex, m.index) \o m.text
            \o restoreLiterals(text, m.index + m.length)

\* the loop that restores the literals in the parts that are texts
restored(parts) ==
  [i \in DOMAIN parts |->
     IF parts[i].handler THEN parts[i]
     ELSE TextPart(restoreLiterals(parts[i].text, 0))]

\* the parts of the formatter compiled from a string that is no preset
buildParts(formatStr) ==
  LET found == literals(formatStr, 0)
      working == workingStr(formatStr, found)
      parts == withRemaining(formatStr,
                             scanTokens(formatStr, working, ScanStart))
  IN restored(parts)

\* compiled(date): the parts rendered for the date, one after the other
RECURSIVE compiled(_, _)
compiled(parts, date) ==
  IF parts = << >> THEN << >>
  ELSE (IF Head(parts).handler THEN TOKEN_HANDLERS(Head(parts).text, date)
        ELSE Head(parts).text) \o compiled(Tail(parts), date)

\* formatterCache.get(key) is not undefined
cacheHas(cache, key) == \E e \in cache : e.key = key

\* formatterCache.get(key) that hands back any entry, whatever its key
cacheGetAny(cache, key) == (CHOOSE e \in cache : TRUE).parts

\* formatterCache.get(key)
cacheGet(cache, key) == (CHOOSE e \in cache : e.key = key).parts

\* formatterCache.set(key, parts) that drops the other entries
cacheSetAlone(cache, key, parts) == { [key |-> key, parts |-> parts] }

\* formatterCache.set(key, parts)
cacheSet(cache, key, parts) ==
  { e \in cache : e.key # key } \cup { [key |-> key, parts |-> parts] }

\* compileFormatter(formatStr): the formatter returned and the cache after
\* the call.  A preset is compiled under the string it stands for.  A key
\* that the preset table inherits from Object.prototype ('constructor',
\* 'toString', ...) reads as that member, which is truthy and no string:
\* compileFormatter is re-entered with it, literalPattern.exec finds a
\* literal in its text ('[native code]', '[object Object]'), and
\* workingStr.slice of the masking loop is no function: a TypeError.
RECURSIVE compileFormatter(_, _)
compileFormatter(formatStr, cache) ==
  LET preset == FORMAT_PRESETS(formatStr)
      parts == buildParts(formatStr)
  IN IF cacheHas(cache, formatStr)
     THEN [err |-> "none", parts |-> cacheGet(cache, formatStr),
           cache |-> cache]
     ELSE IF preset.is = "string" THEN compileFormatter(preset.text, cache)
     ELSE IF preset.is = "object"
     THEN [err |-> "TypeError", parts |-> << >>, cache |-> cache]
     ELSE [err |-> "none", parts |-> parts,
           cache |-> cacheSet(cache, formatStr, parts)]

\* format(date, formatStr): the text returned or the error thrown, and the
\* cache after the call
format(date, formatStr, cache) ==
  LET formatter == compileFormatter(formatStr, cache)
  IN IF date = NoValue
     THEN [err |-> "FormatError", msg |-> "Invalid date object",
           text |-> << >>, cache |-> cache]
     ELSE IF formatStr = << >>
     THEN [err |-> "FormatError", msg |-> "Invalid format string",
           text |-> << >>, cache |-> cache]
     ELSE IF formatter.err # "none"
     THEN [err |-> "FormatError", msg |-> "Format error",
           text |-> << >>, cache |-> formatter.cache]
     ELSE [err |-> "none", msg |-> "",
           text |-> compiled(formatter.parts, date),
           cache |-> formatter.cache]

(***************************************************************************)
(* The state machine.                                                      *)
(*   heap  the ChronoDate values that exist, in order of creation; a       *)
(*         value is named by its index                                     *)
(*   res   the last call: operation, index of the value passed, argument,  *)
(*         and the outcome: the error thrown, the value or the text        *)
(*         returned                                                        *)
(***************************************************************************)
NoRes ==
  [op |-> "none", in |-> 0, arg |-> 0, err |-> "none", msg |-> "",
   val |-> NoValue, text |-> << >>]

\* the callers of compileFormatter that are followed turn by turn
Callers == { "A", "B" }

\* a caller that is not in compileFormatter: pc is the caller's place in it,
\* formatStr the string it compiles, working the masked string, s the scan
\* (s.patternLastIndex is not used: TOKEN_PATTERN.lastIndex is the variable),
\* parts the formatter it got
Idle ==
  [pc |-> "idle", formatStr |-> << >>, working |-> << >>, s |-> ScanStart,
   parts |-> << >>]

\* the inputs of the constructors
Fields(y, mo, d, h, mi, s, ms, tz) ==
  [year |-> y, month |-> mo, day |-> d, hour |-> h, minute |-> mi,
   second |-> s, millisecond |-> ms, timezone |-> tz]

Offset0530 == <<"+", "0", "5", ":", "3", "0">>

ValidComponentInputs ==
  { Fields(2025, 1, 31, 10, 30, 45, 123, UTC),
    Fields(2024, 2, 29, 0, 0, 0, 0, UTC),
    Fields(2024, 12, 31, 23, 59, 59, 999, Offset0530),
    Fields(2025, 3, 31, 0, 0, 0, 0, UTC),
    Fields(99, 12, 31, 12, 0, 0, 0, UTC),
    Fields(0, 2, 29, 0, 0, 0, 1, UTC),
    Fields(10000, 1, 1, 0, 0, 0, 0, UTC),
    Fields(-1, 6, 15, 0, 0, 0, 0, UTC),
    Fields(100, 1, 1, 0, 0, 0, 0, UTC) }

InvalidComponentInputs ==
  { Fields(2025, 13, 1, 0, 0, 0, 0, UTC),
    Fields(2025, 0, 1, 0, 0, 0, 0, UTC),
    Fields(2025, 1, 32, 0, 0, 0, 0, UTC),
    Fields(2025, 1, 0, 0, 0, 0, 0, UTC),
    Fields(2023, 2, 29, 0, 0, 0, 0, UTC),
    Fields(1900, 2, 29, 0, 0, 0, 0, UTC),
    Fields(2025, 4, 31, 0, 0, 0, 0, UTC),
    Fields(2025, 1, 15, 24, 0, 0, 0, UTC),
    Fields(2025, 1, 15, 0, 60, 0, 0, UTC),
    Fields(2025, 1, 15, 0, 0, 60, 0, UTC),
    Fields(2025, 1, 15, 0, 0, 0, 1000, UTC),
    Fields(2025, 1, 15, -1, 0, 0, 0, UTC),
    Fields(2025, 2, 30, 0, 0, -1, 0, UTC) }

ComponentInputs == ValidComponentInputs \cup InvalidComponentInputs

\* timestamps: the epoch, the millisecond before it, an instant of 2025, an
\* instant of the year 50 and one of the year 10000
TimestampInputs ==
  { [day |-> 0, ms |-> 0],
    [day |-> -1, ms |-> 86399999],
    [day |-> 20254, ms |-> 45296789],
    [day |-> JsDayFromYear(50) + 59, ms |-> 1000],
    [day |-> JsDayFromYear(10000), ms |-> 0] }

Amounts == (-MaxN)..MaxN

Duration(y, mo, w, d, h, mi, s, ms) ==
  [years |-> y, months |-> mo, weeks |-> w, days |-> d, hours |-> h,
   minutes |-> mi, seconds |-> s, milliseconds |-> ms]

DurationInputs ==
  LET U == Undefined
  IN { Duration(U, U, U, U, U, U, U, U),
       Duration(Some(1), Some(1), U, U, U, U, U, U),
       Duration(U, Some(1), U, Some(1), U, U, U, U),
       Duration(U, U, U, Some(1), Some(-1), Some(2), U, U),
       Duration(U, U, Some(1), U, U, U, Some(-1), Some(1)),
       Duration(Some(0), U, U, Some(0), U, U, U, U),
       Duration(U, Some(-1), U, U, Some(1), U, U, U) }

Modifications(y, mo, d, h, mi, s, ms, tz) == Fields(y, mo, d, h, mi, s, ms, tz)

CloneInputs ==
  LET U == Undefined
  IN { Modifications(U, U, U, U, U, U, U, U),
       Modifications(U, Some(2), U, U, U, U, U, U),
       Modifications(U, U, Some(31), U, U, U, U, U),
       Modifications(Some(2023), U, U, U, U, U, U, U),
       Modifications(U, U, U, Some(24), U, U, U, U),
       Modifications(U, Some(13), U, Some(24), U, U, U, U),
       Modifications(U, U, U, U, U, U, U, Some(Offset0530)) }

\* the texts given to the parser: a date part, then nothing, or a bare T, or
\* T with a time part, a fraction and a zone suffix, each well or ill formed
Chars2(n) == <<DigitChars[(n \div 10) + 1], DigitChars[(n % 10) + 1]>>

Chars4(n) == Chars2(n \div 100) \o Chars2(n % 100)

DateText(y, mo, d) ==
  Chars4(y) \o <<"-">> \o Chars2(mo) \o <<"-">> \o Chars2(d)

TimeText(h, mi, s) ==
  <<"T">> \o Chars2(h) \o <<":">> \o Chars2(mi) \o <<":">> \o Chars2(s)

DateTexts ==
  { DateText(2025, 1, 15), DateText(2024, 2, 29), DateText(2023, 2, 29),
    DateText(2000, 2, 29), DateText(1900, 2, 29), DateText(2025, 13, 1),
    DateText(2025, 0, 10), DateText(2025, 1, 32), DateText(2025, 1, 0),
    DateText(2025, 4, 31), DateText(2025, 12, 31), DateText(50, 6, 30) }

TimeTexts ==
  { TimeText(10, 30, 45), TimeText(0, 0, 0), TimeText(23, 59, 59),
    TimeText(24, 0, 0), TimeText(10, 60, 0), TimeText(10, 30, 60),
    <<"T", "1", "0", ":", "3", "0">>,
    <<"T", "1", ":", "3", "0", ":", "4", "5">>,
    <<" ", "1", "0", ":", "3", "0", ":", "4", "5">> }

FractionTexts ==
  { << >>, <<".", "1">>, <<".", "1", "2">>, <<".", "1", "2", "3">>,
    <<".", "1", "2", "3", "4">>, <<".">>, <<".", "0", "0", "0">> }

ZoneTexts ==
  { << >>, <<"Z">>, Offset0530, <<"-", "0", "8", ":", "0", "0">>,
    <<"+", "0", "5", "3", "0">>, <<"z">>, <<"Z", "Z">>,
    <<"Z", "+", "0", "5", ":", "3", "0">>, <<"+", "0", "5", ":", "3", "0", "Z">>,
    <<"T", "Z">> }

OtherTexts ==
  { << >>, <<"i", "n", "v", "a", "l", "i", "d">>, <<"T">>,
    <<"2", "0", "2", "5", "-", "1", "-", "1", "5">>,
    <<"2", "0", "2", "5", "0", "1", "1", "5">>,
    <<"2", "0", "2", "5", "/", "0", "1", "/", "1", "5">>,
    <<" ">> \o DateText(2025, 1, 15),
    DateText(2025, 1, 15) \o <<"Z">>,
    DateText(2025, 1, 15) \o Offset0530,
    DateText(2025, 1, 15) \o <<"T", "T">>,
    <<"T">> \o DateText(2025, 1, 15),
    <<"+">> \o DateText(2025, 1, 15) }

TextInputs ==
  { d \o t : d \in DateTexts, t \in {<< >>, <<"T">>, TimeText(10, 30, 45)} }
    \cup { DateText(2025, 1, 15) \o t \o f \o z :
             t \in TimeTexts, f \in FractionTexts, z \in ZoneTexts }
    \cup { DateText(2023, 2, 29) \o TimeText(24, 0, 0) \o f \o Offset0530 :
             f \in FractionTexts }
    \cup OtherTexts

\* the result is written into the object passed in
ReturnedInPlace(h, i, v) ==
  IF i = 0 THEN Append(h, v) ELSE [h EXCEPT ![i] = v]

\* every call hands its result back as a new object, new ChronoDateImpl(...);
\* the object passed in (index i, 0 when there is none) is frozen
Returned(h, i, v) == Append(h, v)

\* the operations that ask about values and make none
Questions ==
  { "isValid", "isBefore", "isAfter", "isSame", "isSameOrBefore",
    "isSameOrAfter", "isBetween", "diff", "diffAbs", "min", "max",
    "getFormatterCacheSize" }

\* a call of operation op on value i with argument arg and outcome r.  A
\* question leaves every value as it is, so the caller asks it last: no
\* state is lost by that.
Call(op, i, arg, r) ==
  /\ Len(heap) < MaxValues
  /\ res.op \notin Questions
  /\ res' = [op |-> op, in |-> i, arg |-> arg, err |-> r.err, msg |-> r.msg,
             val |-> r.val, text |-> << >>]
  /\ heap' = IF r.err = "none" THEN Returned(heap, i, r.val) ELSE heap
  /\ UNCHANGED <<formatterCache, tokenPatternLastIndex, callers>>

Init ==
  /\ heap = << >>
  /\ res = NoRes
  /\ formatterCache = {}
  /\ tokenPatternLastIndex = 0
  /\ callers = [c \in Callers |-> Idle]

\* The caller builds its first value from raw input; every later value is
\* derived from a value that exists.
DateFromComponents ==
  \E f \in ComponentInputs :
    /\ heap = << >>
    /\ Call("dateFromComponents", 0, f,
            dateFromComponents(f.year, f.month, f.day, f.hour, f.minute,
                               f.second, f.millisecond, f.timezone))

DateFromTimestamp ==
  \E t \in TimestampInputs :
    /\ heap = << >>
    /\ Call("dateFromTimestamp", 0, t, dateFromTimestamp(t, UTC))

CloneDate ==
  \E i \in DOMAIN heap, m \in CloneInputs :
    Call("cloneDate", i, m, cloneDate(heap[i], m))

AddDays ==
  \E i \in DOMAIN heap, n \in Amounts :
    Call("addDays", i, n, addDays(heap[i], n))

AddMonths ==
  \E i \in DOMAIN heap, n \in Amounts :
    Call("addMonths", i, n, addMonths(heap[i], n))

AddYears ==
  \E i \in DOMAIN heap, n \in Amounts :
    Call("addYears", i, n, addYears(heap[i], n))

AddHours ==
  \E i \in DOMAIN heap, n \in Amounts :
    Call("addHours", i, n, addHours(heap[i], n))

AddMinutes ==
  \E i \in DOMAIN heap, n \in Amounts :
    Call("addMinutes", i, n, addMinutes(heap[i], n))

AddSeconds ==
  \E i \in DOMAIN heap, n \in Amounts :
    Call("addSeconds", i, n, addSeconds(heap[i], n))

AddMilliseconds ==
  \E i \in DOMAIN heap, n \in Amounts :
    Call("addMilliseconds", i, n, addMilliseconds(heap[i], n))

AddWeeks ==
  \E i \in DOMAIN heap, n \in Amounts :
    Call("addWeeks", i, n, addWeeks(heap[i], n))

AddDuration ==
  \E i \in DOMAIN heap, d \in DurationInputs :
    Call("addDuration", i, d, addDuration(heap[i], d))

SubtractDays ==
  \E i \in DOMAIN heap, n \in Amounts :
    Call("subtractDays", i, n, subtractDays(heap[i], n))

SubtractMonths ==
  \E i \in DOMAIN heap, n \in Amounts :
    Call("subtractMonths", i, n, subtractMonths(heap[i], n))

SubtractYears ==
  \E i \in DOMAIN heap, n \in Amounts :
    Call("subtractYears", i, n, subtractYears(heap[i], n))

SubtractDuration ==
  \E i \in DOMAIN heap, d \in DurationInputs :
    Call("subtractDuration", i, d, subtractDuration(heap[i], d))

StartOfDay ==
  \E i \in DOMAIN heap : Call("startOfDay", i, 0, startOfDay(heap[i]))

EndOfDay ==
  \E i \in DOMAIN heap : Call("endOfDay", i, 0, endOfDay(heap[i]))

\* d.toISOString()
ToISOString ==
  \E i \in DOMAIN heap :
    /\ Len(heap) < MaxValues
    /\ res' = [NoRes EXCEPT !.op = "toISOString", !.in = i,
                            !.text = toISOString(heap[i])]
    /\ UNCHANGED <<heap, formatterCache, tokenPatternLastIndex, callers>>

\* parseISO(d.toISOString()): the text just rendered is parsed back
ParseISO ==
  /\ res.op = "toISOString"
  /\ Call("parseISO", res.in, res.text, parseISO(res.text))

\* parseISO(t) of a text from outside, as the caller's first call
ParseInput ==
  \E t \in TextInputs :
    /\ heap = << >>
    /\ Call("parseISO", 0, t, parseISO(t))

Next ==
  \/ DateFromComponents
  \/ DateFromTimestamp
  \/ CloneDate
  \/ AddDays
  \/ AddMonths
  \/ AddYears
  \/ AddHours
  \/ AddMinutes
  \/ AddSeconds
  \/ AddMilliseconds
  \/ AddWeeks
  \/ AddDuration
  \/ SubtractDays
  \/ SubtractMonths
  \/ SubtractYears
  \/ SubtractDuration
  \/ StartOfDay
  \/ EndOfDay
  \/ ToISOString
  \/ ParseISO

Spec == Init /\ [][Next]_vars

\* the parser alone, on texts from outside
NextParse == ParseInput

SpecParse == Init /\ [][NextParse]_vars

(***************************************************************************)
(* The factory over raw inputs.                                            *)
(***************************************************************************)
HostClocks == { [day |-> 20254, ms |-> 45296789], [day |-> 20454, ms |-> 0] }

HostOffsets == {0, 330, -480}

Hosts ==
  { [now |-> c, offset |-> o, lenient |-> l] :
      c \in HostClocks, o \in HostOffsets, l \in BOOLEAN }

\* the texts of the parser that have the shape of the Date Time String
\* Format, and two texts that name no date
FactoryTexts ==
  { t \in TextInputs : IsFormatString(t) }
    \cup { << >>, <<"i", "n", "v", "a", "l", "i", "d">> }

Finite(t) == [is |-> "finite", t |-> t]

\* the timestamps above, the last and the first instant past the range of
\* Date, NaN and Infinity
NumberInputs ==
  { Finite(t) : t \in TimestampInputs }
    \cup { Finite([day |-> 100000000, ms |-> 0]),
           Finite([day |-> 100000000, ms |-> 1]),
           Finite([day |-> -100000001, ms |-> 86399999]),
           NaNNumber,
           [is |-> "Infinity", t |-> [day |-> 0, ms |-> 0]] }

NativeInputs ==
  { NaNDate, NewDate([day |-> 20254, ms |-> 45296789]),
    NewDate([day |-> 0, ms |-> 0]),
    NewDate([day |-> JsDayFromYear(50) + 59, ms |-> 1000]) }

RawInputs ==
  { NoInput }
    \cup { StringInput(t) : t \in FactoryTexts }
    \cup { NumberInput(n) : n \in NumberInputs }
    \cup { NativeInput(d) : d \in NativeInputs }

\* the inputs at hand: a raw one for the first call, the values that exist
\* for the calls after it
FactoryInputs ==
  IF res.op = "none" THEN { [i |-> 0, input |-> x] : x \in RawInputs }
  ELSE { [i |-> k, input |-> ValueInput(heap[k])] : k \in DOMAIN heap }

\* createDate(input): a ChronoDate passed in is handed back as it is, every
\* other input gives a new value
CreateDate ==
  \E x \in FactoryInputs, host \in Hosts :
    LET r == createDate(x.input, host)
    IN /\ Len(heap) < MaxValues
       /\ res' = [op |-> "createDate", in |-> x.i,
                  arg |-> [input |-> x.input, host |-> host],
                  err |-> r.err, msg |-> r.msg, val |-> r.val,
                  text |-> << >>]
       /\ heap' = IF r.err = "none" /\ x.input.type # "ChronoDate"
                  THEN Returned(heap, x.i, r.val) ELSE heap
       /\ UNCHANGED <<formatterCache, tokenPatternLastIndex, callers>>

Now ==
  \E host \in Hosts :
    /\ res.op = "none"
    /\ Call("now", 0, [input |-> NoInput, host |-> host],
            now(host))

\* isValid(input): a question, no value is made; res.val.bool is the answer
IsValid ==
  \E x \in FactoryInputs, host \in Hosts :
    /\ res' = [op |-> "isValid", in |-> x.i,
               arg |-> [input |-> x.input, host |-> host],
               err |-> "none", msg |-> "", val |-> [bool |-> isValid(x.input, host)],
               text |-> << >>]
    /\ UNCHANGED <<heap, formatterCache, tokenPatternLastIndex, callers>>

NextFactory ==
  \/ CreateDate
  \/ Now
  \/ IsValid

SpecFactory == Init /\ [][NextFactory]_vars

(***************************************************************************)
(* Comparison of the values that exist.                                    *)
(***************************************************************************)
Units ==
  { "year", "month", "week", "day", "hour", "minute", "second",
    "millisecond" }

\* a question op about value i with argument arg and answer v
Ask(op, i, arg, err, msg, v) ==
  /\ res.op \notin Questions
  /\ res' = [op |-> op, in |-> i, arg |-> arg, err |-> err, msg |-> msg,
             val |-> v, text |-> << >>]
  /\ UNCHANGED <<heap, formatterCache, tokenPatternLastIndex, callers>>

IsBefore ==
  \E i \in DOMAIN heap, j \in DOMAIN heap :
    Ask("isBefore", i, j, "none", "", [bool |-> isBefore(heap[i], heap[j])])

IsAfter ==
  \E i \in DOMAIN heap, j \in DOMAIN heap :
    Ask("isAfter", i, j, "none", "", [bool |-> isAfter(heap[i], heap[j])])

IsSame ==
  \E i \in DOMAIN heap, j \in DOMAIN heap, unit \in Units :
    Ask("isSame", i, [other |-> j, unit |-> unit], "none", "",
        [bool |-> isSame(heap[i], heap[j], unit)])

IsSameOrBefore ==
  \E i \in DOMAIN heap, j \in DOMAIN heap :
    Ask("isSameOrBefore", i, j, "none", "",
        [bool |-> isSameOrBefore(heap[i], heap[j])])

IsSameOrAfter ==
  \E i \in DOMAIN heap, j \in DOMAIN heap :
    Ask("isSameOrAfter", i, j, "none", "",
        [bool |-> isSameOrAfter(heap[i], heap[j])])

IsBetween ==
  \E i \in DOMAIN heap, j \in DOMAIN heap, k \in DOMAIN heap :
    Ask("isBetween", i, [start |-> j, end |-> k], "none", "",
        [bool |-> isBetween(heap[i], heap[j], heap[k])])

Diff ==
  \E i \in DOMAIN heap, j \in DOMAIN heap, unit \in Units :
    Ask("diff", i, [other |-> j, unit |-> unit], "none", "",
        diff(heap[i], heap[j], unit))

DiffAbs ==
  \E i \in DOMAIN heap, j \in DOMAIN heap, unit \in Units :
    Ask("diffAbs", i, [other |-> j, unit |-> unit], "none", "",
        diffAbs(heap[i], heap[j], unit))

\* the argument lists of min and max: up to MaxArgs of the values that
\* exist, by index, in any order and with repeats
ArgLists == UNION { [1..n -> DOMAIN heap] : n \in 0..MaxArgs }

\* min and max hand back one of the values passed in
Min ==
  \E args \in ArgLists :
    LET r == min([k \in DOMAIN args |-> heap[args[k]]])
    IN Ask("min", 0, args, r.err, r.msg, r.val)

Max ==
  \E args \in ArgLists :
    LET r == max([k \in DOMAIN args |-> heap[args[k]]])
    IN Ask("max", 0, args, r.err, r.msg, r.val)

NextCompare ==
  \/ DateFromComponents
  \/ AddDays
  \/ IsBefore
  \/ IsAfter
  \/ IsSame
  \/ IsSameOrBefore
  \/ IsSameOrAfter
  \/ IsBetween
  \/ Diff
  \/ DiffAbs
  \/ Min
  \/ Max

SpecCompare == Init /\ [][NextCompare]_vars

\* Month arithmetic followed by a count: a value, the values made from it
\* by addMonths and addDuration, and diff between the values that exist.
NextMonths ==
  \/ DateFromComponents
  \/ AddMonths
  \/ AddDuration
  \/ Diff

SpecMonths == Init /\ [][NextMonths]_vars

(***************************************************************************)
(* The pattern formatter over the values that exist.                       *)
(***************************************************************************)
PatternInputs ==
  {
    \* 'YYYY-MM-DD'
    <<"Y", "Y", "Y", "Y", "-", "M", "M", "-", "D", "D">>,
    \* 'ISO_DATE', the preset of YYYY-MM-DD
    <<"I", "S", "O", "_", "D", "A", "T", "E">>,
    \* '[YYYY] YYYY'
    <<"[", "Y", "Y", "Y", "Y", "]", " ", "Y", "Y", "Y", "Y">>,
    \* 'MMMMM'
    <<"M", "M", "M", "M", "M">>,
    \* 'TIME', the preset of 'h:mm A'
    <<"T", "I", "M", "E">>,
    \* 'constructor', a member of Object.prototype
    <<"c", "o", "n", "s", "t", "r", "u", "c", "t", "o", "r">>,
    \* '', the empty string
    << >>,
    \* 'Hi [] ZZ YY x'
    <<"H", "i", " ", "[", "]", " ", "Z", "Z", " ", "Y", "Y", " ", "x">> }

\* the string that compileFormatter compiles for formatStr: the pattern a
\* preset name stands for, or else formatStr itself
expanded(formatStr) ==
  IF FORMAT_PRESETS(formatStr).is = "string"
  THEN FORMAT_PRESETS(formatStr).text ELSE formatStr

\* format(d, formatStr) for a value d that exists, as one step: a call that
\* scans sets TOKEN_PATTERN.lastIndex to 0 and leaves it at 0, where the
\* last exec, which finds nothing, puts it.  res.val.hit records whether
\* the formatter was taken from the cache.
Format ==
  \E i \in DOMAIN heap, formatStr \in PatternInputs :
    \E r \in { format(heap[i], formatStr, formatterCache) } :
       /\ res.op \notin Questions
       /\ Cardinality(r.cache) <= MaxCache
       /\ res' = [op |-> "format", in |-> i, arg |-> formatStr,
                  err |-> r.err, msg |-> r.msg,
                  val |-> [hit |-> \/ cacheHas(formatterCache, formatStr)
                                  \/ cacheHas(formatterCache,
                                              expanded(formatStr))],
                  text |-> r.text]
       /\ formatterCache' = r.cache
       /\ UNCHANGED <<heap, tokenPatternLastIndex, callers>>

ClearFormatterCache ==
  /\ res.op \notin Questions
  /\ res' = [NoRes EXCEPT !.op = "clearFormatterCache"]
  /\ formatterCache' = {}
  /\ UNCHANGED <<heap, tokenPatternLastIndex, callers>>

\* getFormatterCacheSize(): a question, res.val.size is the answer
GetFormatterCacheSize ==
  /\ res.op \notin Questions
  /\ res' = [NoRes EXCEPT !.op = "getFormatterCacheSize",
                          !.val = [size |-> Cardinality(formatterCache)]]
  /\ UNCHANGED <<heap, formatterCache, tokenPatternLastIndex, callers>>

NextFormat ==
  \/ DateFromComponents
  \/ StartOfDay
  \/ Format
  \/ ClearFormatterCache
  \/ GetFormatterCacheSize

SpecFormat == Init /\ [][NextFormat]_vars

(***************************************************************************)
(* compileFormatter turn by turn.  TOKEN_PATTERN is one RegExp object of   *)
(* the module, so its lastIndex is shared by all callers like the cache.   *)
(* A call runs to completion before another call starts, as JavaScript    *)
(* runs it: compileFormatter is synchronous and calls no code of a caller. *)
(***************************************************************************)
CompileInputs == PatternInputs \ { << >> }

\* compileFormatter(formatStr) up to the token loop: the cache lookup, the
\* preset lookup (the call is entered again with the pattern of the preset,
\* and looks in the cache again), the literals, the masked string and
\* TOKEN_PATTERN.lastIndex = 0
CompileEnter ==
  \E c \in Callers, formatStr \in CompileInputs :
    LET key == IF cacheHas(formatterCache, formatStr) THEN formatStr
               ELSE expanded(formatStr)
    IN /\ \A o \in Callers : callers[o].pc \notin { "scan", "finish" }
       /\ callers[c].pc = "idle"
       /\ IF cacheHas(formatterCache, key)
          THEN /\ callers' = [callers EXCEPT ![c] =
                                [Idle EXCEPT !.pc = "done", !.formatStr = key,
                                   !.parts = cacheGet(formatterCache, key)]]
               /\ UNCHANGED tokenPatternLastIndex
          ELSE IF FORMAT_PRESETS(formatStr).is = "object"
          THEN /\ callers' = [callers EXCEPT ![c] =
                                [Idle EXCEPT !.pc = "thrown",
                                             !.formatStr = formatStr]]
               /\ UNCHANGED tokenPatternLastIndex
          ELSE /\ callers' = [callers EXCEPT ![c] =
                                [Idle EXCEPT !.pc = "scan", !.formatStr = key,
                                   !.working =
                                     workingStr(key, literals(key, 0))]]
               /\ tokenPatternLastIndex' = 0
       /\ UNCHANGED <<heap, res, formatterCache>>

\* one turn of the loop while ((match = TOKEN_PATTERN.exec(workingStr)))
CompileScan ==
  \E c \in Callers :
    /\ callers[c].pc = "scan"
    /\ \E t \in { scanStep(callers[c].formatStr, callers[c].working,
                            [callers[c].s EXCEPT
                               !.patternLastIndex =
                                 tokenPatternLastIndex]) } :
         /\ callers' = [callers EXCEPT
                          ![c].s = [t EXCEPT !.patternLastIndex = 0],
                          ![c].pc = IF t.done THEN "finish" ELSE "scan"]
         /\ tokenPatternLastIndex' = t.patternLastIndex
    /\ UNCHANGED <<heap, res, formatterCache>>

\* the rest of compileFormatter: the remaining text, the literals restored,
\* the insert into the cache and the return
CompileFinish ==
  \E c \in Callers :
    /\ callers[c].pc = "finish"
    /\ \E parts \in { restored(withRemaining(callers[c].formatStr,
                                              callers[c].s)) } :
         /\ callers' = [callers EXCEPT ![c].pc = "done", ![c].parts = parts]
         /\ formatterCache' =
              cacheSet(formatterCache, callers[c].formatStr, parts)
    /\ UNCHANGED <<heap, res, tokenPatternLastIndex>>

NextCompile ==
  \/ CompileEnter
  \/ CompileScan
  \/ CompileFinish

SpecCompile == Init /\ [][NextCompile]_vars

(***************************************************************************)
(* The calendar as the specification states it, used by the properties     *)
(* only.                                                                   *)
(***************************************************************************)
\* February has 29 days in years divisible by 4 and not by 100, or by 400
CalendarDaysInMonth(y, m) ==
  IF m = 2
  THEN (IF (y % 4 = 0 /\ y % 100 # 0) \/ y % 400 = 0 THEN 29 ELSE 28)
  ELSE IF m \in {4, 6, 9, 11} THEN 30 ELSE 31

RealDate(y, m, d) == m \in 1..12 /\ d >= 1 /\ d <= CalendarDaysInMonth(y, m)

RealTime(h, mi, s, ms) ==
  h \in 0..23 /\ mi \in 0..59 /\ s \in 0..59 /\ ms \in 0..999

Smaller(a, b) == IF a <= b THEN a ELSE b

\* days from 1970-01-01 to the civil date (y, m, d) of the proleptic
\* Gregorian calendar, by counting from 1 March of year 0 in 400-year eras
ProlepticDay(y, m, d) ==
  LET yy == IF m <= 2 THEN y - 1 ELSE y
      era == yy \div 400
      yoe == yy - era * 400
      mp == IF m > 2 THEN m - 3 ELSE m + 9
      doy == ((153 * mp + 2) \div 5) + d - 1
      doe == yoe * 365 + (yoe \div 4) - (yoe \div 100) + doy
  IN era * 146097 + doe - 719468

\* the UTC millisecond count of the fields of v, as [day, ms]
ProlepticTimestamp(v) ==
  [day |-> ProlepticDay(v.year, v.month, v.day),
   ms |-> v.hour * 3600000 + v.minute * 60000 + v.second * 1000
            + v.millisecond]

SameTimeOfDay(a, b) ==
  /\ a.hour = b.hour
  /\ a.minute = b.minute
  /\ a.second = b.second
  /\ a.millisecond = b.millisecond

SameCivilFields(a, b) ==
  /\ a.year = b.year
  /\ a.month = b.month
  /\ a.day = b.day
  /\ SameTimeOfDay(a, b)

\* the values that exist: those kept and the one just returned
LiveValues ==
  {heap[i] : i \in DOMAIN heap}
    \cup (IF res.err = "none" /\ res.val # NoValue THEN {res.val} ELSE {})

(***************************************************************************)
(* C1.  addMonths(d, n) is d with the month moved by n with carry into the *)
(* year, the day clamped to the length of the new month, and the time of   *)
(* day kept: Jan 31 plus one month is the last day of February.  Stated    *)
(* for a value d whose timestamp is the count of its fields (see C3).      *)
(***************************************************************************)
C1_AddMonthsClampsDay ==
  (/\ res.op = "addMonths"
   /\ heap[res.in].timestamp = ProlepticTimestamp(heap[res.in])) =>
    LET d == heap[res.in]
        total == d.year * 12 + (d.month - 1) + res.arg
        newYear == total \div 12
        newMonth == (total % 12) + 1
    IN /\ res.err = "none"
       /\ res.val.year = newYear
       /\ res.val.month = newMonth
       /\ res.val.day = Smaller(d.day, CalendarDaysInMonth(newYear, newMonth))
       /\ SameTimeOfDay(res.val, d)

(***************************************************************************)
(* C2.  addYears(d, n) is d with the year moved by n, the same month, the  *)
(* day clamped to the length of that month in the new year, and the time   *)
(* of day kept: Feb 29 plus one year is Feb 28.  Stated for a value d      *)
(* whose timestamp is the count of its fields (see C3).                    *)
(***************************************************************************)
C2_AddYearsClampsDay ==
  (/\ res.op = "addYears"
   /\ heap[res.in].timestamp = ProlepticTimestamp(heap[res.in])) =>
    LET d == heap[res.in]
        newYear == d.year + res.arg
    IN /\ res.err = "none"
       /\ res.val.year = newYear
       /\ res.val.month = d.month
       /\ res.val.day = Smaller(d.day, CalendarDaysInMonth(newYear, d.month))
       /\ SameTimeOfDay(res.val, d)

(***************************************************************************)
(* C3.  The timestamp of every value is the UTC proleptic-Gregorian        *)
(* millisecond count of its own civil fields, years below 100 included.    *)
(***************************************************************************)
C3_TimestampIsCountOfFields ==
  \A v \in LiveValues : v.timestamp = ProlepticTimestamp(v)

(***************************************************************************)
(* C4.  dateFromTimestamp(ts) succeeds and returns a value whose timestamp *)
(* is ts.                                                                  *)
(***************************************************************************)
C4_FromTimestampKeepsTimestamp ==
  res.op = "dateFromTimestamp" =>
    res.err = "none" /\ res.val.timestamp = res.arg

(***************************************************************************)
(* C5.  parseISO(v.toISOString()) succeeds and returns the civil fields    *)
(* and the timestamp of v, for every value v built from valid fields.      *)
(***************************************************************************)
C5_ISORoundTrip ==
  (res.op = "parseISO" /\ res.in # 0) =>
    /\ res.err = "none"
    /\ SameCivilFields(res.val, heap[res.in])
    /\ res.val.timestamp = heap[res.in].timestamp

(***************************************************************************)
(* C6.  Every value that exists has its month in 1..12, its day in         *)
(* 1..daysInMonth(year, month), its hour in 0..23, its minute and second   *)
(* in 0..59 and its millisecond in 0..999.                                 *)
(***************************************************************************)
C6_FieldsInRange ==
  \A v \in LiveValues :
    /\ RealDate(v.year, v.month, v.day)
    /\ RealTime(v.hour, v.minute, v.second, v.millisecond)

\* a value derived by arithmetic exists next to the leap day it came from
C6_Witness ==
  /\ Len(heap) = 2
  /\ heap[1].month = 2 /\ heap[1].day = 29
  /\ res.op = "addYears" /\ res.in = 1 /\ res.arg = 1
  /\ heap[2] = res.val

RECURSIVE WrittenNumber(_, _, _)
WrittenNumber(t, from, to) ==
  IF from > to THEN 0
  ELSE WrittenNumber(t, from, to - 1) * 10 + DigitValue(t[to])

\* the text has a time part after the T
HasTimePart(t) == Len(t) > 11

\* the text ends in +HH:MM or -HH:MM
HasOffsetSuffix(t) == HasTimePart(t) /\ t[Len(t) - 5] \in {"+", "-"}

\* the number of fraction digits written after the seconds
FractionDigits(t) ==
  IF HasTimePart(t) /\ Len(t) >= 21 /\ t[20] = "."
  THEN Len(t) - 20
         - (IF HasOffsetSuffix(t) THEN 6 ELSE IF t[Len(t)] = "Z" THEN 1 ELSE 0)
  ELSE 0

\* the fields as written: the date at 1..10, the time at 12..19, the fraction
\* from 21 on, read as thousandths
WrittenFields(t) ==
  LET k == FractionDigits(t)
      frac == WrittenNumber(t, 21, 20 + k)
  IN [year |-> WrittenNumber(t, 1, 4),
      month |-> WrittenNumber(t, 6, 7),
      day |-> WrittenNumber(t, 9, 10),
      hour |-> IF HasTimePart(t) THEN WrittenNumber(t, 12, 13) ELSE 0,
      minute |-> IF HasTimePart(t) THEN WrittenNumber(t, 15, 16) ELSE 0,
      second |-> IF HasTimePart(t) THEN WrittenNumber(t, 18, 19) ELSE 0,
      millisecond |-> IF k = 1 THEN frac * 100
                      ELSE IF k = 2 THEN frac * 10
                      ELSE frac]

(***************************************************************************)
(* C8.  parseISO fails with ParseError, and returns no value, on every     *)
(* text outside the grammar that isValidISOString accepts; a date followed *)
(* by T with no time part is such a text.                                  *)
(***************************************************************************)
C8_OutsideGrammarRejected ==
  (res.op = "parseISO" /\ ~isValidISOString(res.arg)) =>
    res.err = "ParseError" /\ res.val = NoValue

(***************************************************************************)
(* C9.  On a text of the grammar parseISO fails with ParseError when the   *)
(* written date is not a real calendar date or a written time field is out *)
(* of range, and succeeds otherwise with the day as written.               *)
(***************************************************************************)
C9_CalendarDecidesAcceptance ==
  (res.op = "parseISO" /\ isValidISOString(res.arg)) =>
    LET w == WrittenFields(res.arg)
        real == /\ RealDate(w.year, w.month, w.day)
                /\ RealTime(w.hour, w.minute, w.second, w.millisecond)
    IN IF real
       THEN res.err = "none" /\ res.val.month = w.month /\ res.val.day = w.day
       ELSE res.err = "ParseError"

\* Feb 29 of a leap year parses with day 29
C9_Witness ==
  /\ res.op = "parseISO"
  /\ res.arg = DateText(2024, 2, 29)
  /\ res.err = "none"
  /\ res.val.month = 2 /\ res.val.day = 29

(***************************************************************************)
(* C10.  For every accepted text parseISO returns the civil fields as      *)
(* written whatever the zone suffix; a +HH:MM or -HH:MM suffix only        *)
(* becomes the zone label and shifts neither the fields nor the timestamp  *)
(* derived from them; Z, no suffix or no time part gives the label UTC,    *)
(* and no time part gives 00:00:00.000.                                    *)
(***************************************************************************)
C10_FieldsAsWritten ==
  (res.op = "parseISO" /\ res.err = "none") =>
    LET t == res.arg
        w == WrittenFields(t)
    IN /\ SameCivilFields(res.val, w)
       /\ res.val.timezone =
            (IF HasOffsetSuffix(t) THEN SubSeq(t, Len(t) - 5, Len(t)) ELSE UTC)
       /\ res.val.timestamp.ms = ProlepticTimestamp(w).ms
       /\ w.year >= 100 => res.val.timestamp = ProlepticTimestamp(w)
       /\ ~HasTimePart(t) =>
            /\ res.val.hour = 0 /\ res.val.minute = 0
            /\ res.val.second = 0 /\ res.val.millisecond = 0

\* a text with a one-digit fraction and an offset has been parsed
C10_Witness ==
  /\ res.op = "parseISO"
  /\ res.arg = DateText(2025, 1, 15) \o TimeText(10, 30, 45) \o <<".", "1">>
                 \o Offset0530
  /\ res.err = "none"
  /\ res.val.hour = 10
  /\ res.val.millisecond = 100
  /\ res.val.timezone = Offset0530


(* C11. For every text that parseISO accepts, createDate(text) returns the  *)
(* value parseISO(text) returns: the same civil fields, the same timestamp  *)
(* and the same zone label.                                                 *)
C11_TextGoesThroughParser ==
  (/\ res.op = "createDate"
   /\ res.arg.input.type = "string"
   /\ parseISO(res.arg.input.text).err = "none")
    => /\ res.err = "none"
       /\ res.val = parseISO(res.arg.input.text).val

\* the finite number n lies in the range of Date
Representable(n) == n.is = "finite" /\ ~NewDate(n.t).nan

(* C12. For every number n in the representable range, zero and negative    *)
(* values included, createDate(n) returns the value dateFromTimestamp(n):   *)
(* its timestamp is n and its fields are the UTC decomposition of n.        *)
(* Stated for an n that dateFromTimestamp itself keeps (see C4).            *)
C12_NumberGoesThroughFromTimestamp ==
  (/\ res.op = "createDate"
   /\ res.arg.input.type = "number"
   /\ Representable(res.arg.input.num)
   /\ dateFromTimestamp(res.arg.input.num.t, UTC).val.timestamp
        = res.arg.input.num.t)
    => /\ res.err = "none"
       /\ res.val = dateFromTimestamp(res.arg.input.num.t, UTC).val
       /\ res.val.timestamp = res.arg.input.num.t
       /\ ProlepticTimestamp(res.val) = res.arg.input.num.t

\* the instant a raw input names, as a native Date: that of the text, the
\* number itself, the native Date itself; NaN when it names none
InstantOf(input, host) ==
  CASE input.type = "string" -> DateParse(input.text, host)
    [] input.type = "number" ->
         IF input.num.is = "finite" THEN NewDate(input.num.t) ELSE NaNDate
    [] input.type = "Date" -> input.date
    [] OTHER -> NaNDate

\* the outcome r of createDate(input) is the value that the input denotes:
\* the value passed in, or else a value at the instant the input names
Denoted(input, host, r) ==
  /\ r.err = "none"
  /\ IF input.type = "ChronoDate" THEN r.val = input.value
     ELSE LET d == InstantOf(input, host)
          IN /\ input.type = "number" => input.num.is = "finite"
             /\ ~d.nan
             /\ r.val.timestamp = [day |-> d.day, ms |-> d.ms]

\* the input names no instant of the years 0 to 99
OutsideTwoDigitYears(input, host) ==
  LET d == InstantOf(input, host)
  IN d.nan \/ getUTCFullYear(d) \notin 0..99

(* C13. isValid(input) is true exactly when createDate(input) returns the   *)
(* value that the input denotes, rather than throwing or giving the value   *)
(* of another instant.  Stated for inputs that name no instant of the years *)
(* 0 to 99 (see C3).                                                        *)
C13_IsValidIffCreateDateConverts ==
  (/\ res.op = "isValid"
   /\ res.arg.input.type # "ChronoDate"
        => OutsideTwoDigitYears(res.arg.input, res.arg.host))
    => (res.val.bool
          <=> Denoted(res.arg.input, res.arg.host,
                      createDate(res.arg.input, res.arg.host)))


\* the fields of base with each override of m put in place of base's own
Merged(base, m) ==
  LET Pick(o, own) == IF o = << >> THEN own ELSE o[1]
  IN [year |-> Pick(m.year, base.year), month |-> Pick(m.month, base.month),
      day |-> Pick(m.day, base.day), hour |-> Pick(m.hour, base.hour),
      minute |-> Pick(m.minute, base.minute),
      second |-> Pick(m.second, base.second),
      millisecond |-> Pick(m.millisecond, base.millisecond),
      timezone |-> Pick(m.timezone, base.timezone)]

\* the outcome r of building a value from the fields f: a date out of range
\* fails first, then a time out of range, and else the value carries f
BuiltFrom(f, r) ==
  IF ~RealDate(f.year, f.month, f.day)
  THEN r.err = "ChronoError" /\ r.msg = "Invalid date"
  ELSE IF ~RealTime(f.hour, f.minute, f.second, f.millisecond)
  THEN r.err = "ChronoError" /\ r.msg = "Invalid time"
  ELSE /\ r.err = "none"
       /\ SameCivilFields(r.val, f)
       /\ r.val.timezone = f.timezone

(* C14. Construction never clamps or coerces: dateFromComponents(f) and     *)
(* cloneDate(base, overrides) fail when the fields (for cloneDate the       *)
(* merged fields) are out of range, the date being checked before the time, *)
(* and else return a value with exactly those fields; cloneDate gives the   *)
(* outcome of dateFromComponents on the merged fields, timestamp included.  *)
C14_ConstructionNeverClamps ==
  LET r == [err |-> res.err, msg |-> res.msg, val |-> res.val]
  IN /\ res.op = "dateFromComponents" => BuiltFrom(res.arg, r)
     /\ res.op = "cloneDate" =>
          LET f == Merged(heap[res.in], res.arg)
          IN /\ BuiltFrom(f, r)
             /\ r = dateFromComponents(f.year, f.month, f.day, f.hour,
                                       f.minute, f.second, f.millisecond,
                                       f.timezone)

\* the month of a value of day 31 was overridden to February, and the call
\* failed
C14_Witness ==
  /\ res.op = "cloneDate"
  /\ heap[res.in].day = 31
  /\ res.arg.month = <<2>>
  /\ res.err = "ChronoError"


\* value j is addDays(value i, n)
IsAddDays(i, n, j) ==
  LET r == addDays(heap[i], n)
  IN r.err = "none" /\ r.val = heap[j]

(* C15. For every value d and every integer n, positive, negative or zero,  *)
(* diff(d, addDays(d, n), 'day') = n.                                       *)
C15_DiffOfAddDays ==
  (res.op = "diff" /\ res.arg.unit = "day")
    => \A n \in Amounts :
         IsAddDays(res.in, n, res.arg.other)
           => res.val = [hi |-> n, lo |-> 0, per |-> 1]

(* C16. For every value d and every integer n, isBefore(d, addDays(d, n))   *)
(* is true iff n > 0, and isAfter(d, addDays(d, n)) is true iff n < 0.      *)
C16_BeforeIffPositive ==
  /\ res.op = "isBefore"
       => \A n \in Amounts :
            IsAddDays(res.in, n, res.arg) => (res.val.bool <=> n > 0)
  /\ res.op = "isAfter"
       => \A n \in Amounts :
            IsAddDays(res.in, n, res.arg) => (res.val.bool <=> n < 0)

\* the calendar count of months from a to b: the months between the two
\* (year, month) pairs, less one when b's day of the month is below a's
CalendarMonths(a, b) ==
  (b.year - a.year) * 12 + (b.month - a.month)
    - (IF b.day < a.day THEN 1 ELSE 0)

\* the calendar count of years from a to b: the years between, less one when
\* b's (month, day) is earlier than a's
CalendarYears(a, b) ==
  (b.year - a.year)
    - (IF b.month < a.month \/ (b.month = a.month /\ b.day < a.day)
       THEN 1 ELSE 0)

(* C18. diff(a, b, 'month') is (b.year - a.year) * 12 + (b.month - a.month), *)
(* less one when b's day of the month is below a's; diff(a, b, 'year') is   *)
(* b.year - a.year, less one when b's (month, day) is earlier than a's;     *)
(* for b before a as for b after a.                                         *)
C18_DiffMonthYearByCalendar ==
  /\ (res.op = "diff" /\ res.arg.unit = "month")
       => res.val = [hi |-> CalendarMonths(heap[res.in], heap[res.arg.other]),
                     lo |-> 0, per |-> 1]
  /\ (res.op = "diff" /\ res.arg.unit = "year")
       => res.val = [hi |-> CalendarYears(heap[res.in], heap[res.arg.other]),
                     lo |-> 0, per |-> 1]

\* months were counted from a leap day to the day after it: the next
\* month, on an earlier day of the month, so the count is reduced to 0
C18_Witness ==
  /\ res.op = "diff" /\ res.arg.unit = "month"
  /\ heap[res.in].month = 2 /\ heap[res.in].day = 29
  /\ heap[res.arg.other].month = 3 /\ heap[res.arg.other].day = 1
  /\ res.val.hi = 0

\* the zero-indexed count of whole 7-day periods from the epoch to t
WeekBucket(t) == t.day \div 7

(* C19. isSame(a, b, 'week') is true iff a.timestamp and b.timestamp fall   *)
(* in the same 7-day bucket counted from the epoch.  Stated for instants    *)
(* from the epoch on, where the count of whole periods is not in doubt.     *)
C19_SameWeekIsSameBucket ==
  (/\ res.op = "isSame" /\ res.arg.unit = "week"
   /\ heap[res.in].timestamp.day >= 0
   /\ heap[res.arg.other].timestamp.day >= 0)
    => (res.val.bool
          <=> WeekBucket(heap[res.in].timestamp)
                = WeekBucket(heap[res.arg.other].timestamp))

(* C20. min and max fail with an error when called with no argument; with   *)
(* one or more, min returns one of its arguments whose timestamp is <= the  *)
(* timestamp of every argument, and max one whose timestamp is >= that of   *)
(* every argument.                                                          *)
C20_MinMaxOfArguments ==
  LET args == res.arg
      NotAfter(a, b) ==
        a.timestamp.day < b.timestamp.day
          \/ (a.timestamp.day = b.timestamp.day
                /\ a.timestamp.ms <= b.timestamp.ms)
  IN /\ (res.op \in {"min", "max"} /\ Len(args) = 0)
          => res.err = "Error"
     /\ (res.op \in {"min", "max"} /\ Len(args) > 0)
          => /\ res.err = "none"
             /\ \E k \in DOMAIN args : res.val = heap[args[k]]
     /\ (res.op = "min" /\ Len(args) > 0)
          => \A k \in DOMAIN args : NotAfter(res.val, heap[args[k]])
     /\ (res.op = "max" /\ Len(args) > 0)
          => \A k \in DOMAIN args : NotAfter(heap[args[k]], res.val)

\* min was given a later date and then an earlier one, and returned the
\* second
C20_Witness ==
  /\ res.op = "min"
  /\ Len(res.arg) = 2
  /\ heap[res.arg[2]].timestamp.day < heap[res.arg[1]].timestamp.day
  /\ res.val = heap[res.arg[2]]


\* the order in which the fields of a duration are applied
UnitOrder ==
  << "years", "months", "weeks", "days", "hours", "minutes", "seconds",
     "milliseconds" >>

\* the single-unit add operation of a field
AddUnit(v, unit, n) ==
  CASE unit = "years" -> addYears(v, n)
    [] unit = "months" -> addMonths(v, n)
    [] unit = "weeks" -> addWeeks(v, n)
    [] unit = "days" -> addDays(v, n)
    [] unit = "hours" -> addHours(v, n)
    [] unit = "minutes" -> addMinutes(v, n)
    [] unit = "seconds" -> addSeconds(v, n)
    [] unit = "milliseconds" -> addMilliseconds(v, n)

\* the fields of D from the k-th on, applied in order to the outcome r; a
\* field that is absent or zero applies nothing
RECURSIVE AppliedFrom(_, _, _)
AppliedFrom(r, D, k) ==
  IF k > Len(UnitOrder) \/ r.err # "none" THEN r
  ELSE LET o == D[UnitOrder[k]]
       IN AppliedFrom(IF o = << >> \/ o[1] = 0 THEN r
                      ELSE AddUnit(r.val, UnitOrder[k], o[1]),
                      D, k + 1)

\* D with every present field negated
Negated(D) ==
  [u \in DOMAIN D |-> IF D[u] = << >> THEN << >> ELSE <<-D[u][1]>>]

(* C17. addDuration(d, D) applies to the evolving result, in the order      *)
(* years, months, weeks, days, hours, minutes, seconds, milliseconds, the   *)
(* single-unit add of each field of D that is present and not zero;         *)
(* addDuration(d, {}) is d; subtractDuration(d, D) is addDuration of D with *)
(* every present field negated.                                             *)
C17_DurationAppliedInOrder ==
  LET r == [err |-> res.err, msg |-> res.msg, val |-> res.val]
      start == [err |-> "none", msg |-> "", val |-> heap[res.in]]
  IN /\ res.op = "addDuration" =>
          /\ r = AppliedFrom(start, res.arg, 1)
          /\ (\A u \in DOMAIN res.arg : res.arg[u] = << >>)
               => res.val = heap[res.in]
     /\ res.op = "subtractDuration" =>
          /\ r = AppliedFrom(start, Negated(res.arg), 1)
          /\ r = addDuration(heap[res.in], Negated(res.arg))

\* a month and a day were added to a value of day 31: the month first
C17_Witness ==
  /\ res.op = "addDuration"
  /\ res.arg.months = <<1>> /\ res.arg.days = <<1>>
  /\ heap[res.in].day = 31
  /\ res.err = "none"
  /\ res.val = addDays(addMonths(heap[res.in], 1).val, 1).val


\* the timestamp of v is the count of its own fields (not so for the years
\* 0 to 99, see C3)
CountsOwnFields(v) == v.timestamp = ProlepticTimestamp(v)

\* value j is addMonths(value i, n)
IsAddMonths(i, n, j) ==
  LET r == addMonths(heap[i], n)
  IN r.err = "none" /\ r.val = heap[j]

(* C28. For every value d and every integer n, diff(d, addMonths(d, n),      *)
(* 'month') = n, also when d's day of the month does not exist in the       *)
(* target month and when n is negative.                                     *)
C28_DiffOfAddMonths ==
  (res.op = "diff" /\ res.arg.unit = "month")
    => \A n \in Amounts :
         IsAddMonths(res.in, n, res.arg.other)
           => res.val = [hi |-> n, lo |-> 0, per |-> 1]

(* C29. For a not after b and m = diff(a, b, 'month'): m >= 0 and            *)
(* addMonths(a, m) is not after b, the time of day included.  Stated for    *)
(* values whose timestamps are the counts of their fields (see C3) and for  *)
(* a step addMonths(a, m) that keeps a's day of the month (see C1).         *)
C29_DiffMonthsFitBetween ==
  (/\ res.op = "diff"
   /\ res.arg.unit = "month"
   /\ ~Less(heap[res.arg.other].timestamp, heap[res.in].timestamp)
   /\ CountsOwnFields(heap[res.in])
   /\ CountsOwnFields(heap[res.arg.other]))
    => LET m == res.val.hi
           r == addMonths(heap[res.in], m)
       IN /\ m >= 0
          /\ r.err = "none"
          /\ r.val.day = heap[res.in].day
               => ~isAfter(r.val, heap[res.arg.other])

\* D carries no months and no years field
FixedLengthOnly(D) == D.years = Undefined /\ D.months = Undefined

(* C30. For every value d and every duration D with only weeks, days,        *)
(* hours, minutes, seconds and milliseconds fields,                         *)
(* subtractDuration(addDuration(d, D), D) has the timestamp, the fields and *)
(* the zone of d.                                                           *)
C30_FixedLengthRoundTrip ==
  (res.op = "addDuration" /\ res.err = "none" /\ FixedLengthOnly(res.arg))
    => LET d == heap[res.in]
           back == subtractDuration(res.val, res.arg)
       IN /\ back.err = "none"
          /\ back.val.timestamp = d.timestamp
          /\ SameCivilFields(back.val, d)
          /\ back.val.timezone = d.timezone


(***************************************************************************)
(* The pattern formatter.                                                  *)
(***************************************************************************)
(* C21. The formatter cache is transparent: after any sequence of format    *)
(* and clearFormatterCache calls, format(d, p) returns (or throws) what the *)
(* same call returns on an empty cache, whatever was formatted before.      *)
C21_CacheIsTransparent ==
  res.op = "format"
    => LET fresh == format(heap[res.in], res.arg, {})
       IN /\ res.err = fresh.err
          /\ res.msg = fresh.msg
          /\ res.text = fresh.text

\* the second value is formatted by a formatter taken from a cache that
\* holds another pattern too
C21_Witness ==
  /\ res.op = "format"
  /\ res.err = "none"
  /\ res.val.hit
  /\ res.in = 2
  /\ heap[1] # heap[2]
  /\ Cardinality(formatterCache) >= 2

(* C22. After a successful format(d, name) with a preset name, the cache     *)
(* holds an entry under the preset name itself and an entry under the       *)
(* pattern the preset expands to, and both render the same output.          *)
C22_PresetCachedUnderBothKeys ==
  (/\ res.op = "format"
   /\ res.err = "none"
   /\ FORMAT_PRESETS(res.arg).is = "string")
    => /\ cacheHas(formatterCache, res.arg)
       /\ cacheHas(formatterCache, expanded(res.arg))
       /\ compiled(cacheGet(formatterCache, res.arg), heap[res.in])
            = compiled(cacheGet(formatterCache, expanded(res.arg)),
                       heap[res.in])

(* C23. A format call removes and replaces no cache entry; it adds at most   *)
(* the entry of the pattern it compiles, which is in the cache after a      *)
(* successful call, and adds nothing when it fails.  clearFormatterCache    *)
(* leaves the cache empty.  No other operation changes the cache.           *)
C23_EntriesStayUntilCleared ==
  [][/\ res'.op = "format"
          => /\ formatterCache \subseteq formatterCache'
             /\ \A e \in formatterCache' \ formatterCache :
                  e.key = expanded(res'.arg)
             /\ res'.err = "none"
                  => cacheHas(formatterCache', expanded(res'.arg))
             /\ res'.err # "none" => formatterCache' = formatterCache
     /\ res'.op = "clearFormatterCache" => formatterCache' = {}
     /\ res'.op \notin {"format", "clearFormatterCache"}
          => formatterCache' = formatterCache]_vars

\* a format call has just made an entry next to one made before
C23_Witness ==
  /\ res.op = "format"
  /\ res.err = "none"
  /\ ~res.val.hit
  /\ Cardinality(formatterCache) = 2

\* a bracketed span of p starts at index i: '[' at i, and at least one
\* character that is not ']' before the next ']'
IsSpanStart(p, i) ==
  /\ p[i + 1] = "["
  /\ \E j \in (i + 2)..(Len(p) - 1) :
       /\ p[j + 1] = "]"
       /\ \A k \in (i + 1)..(j - 1) : p[k + 1] # "]"

\* the index of the ']' that ends the span starting at i
SpanEnd(p, i) ==
  CHOOSE j \in (i + 2)..(Len(p) - 1) :
    /\ p[j + 1] = "]"
    /\ \A k \in (i + 1)..(j - 1) : p[k + 1] # "]"

\* a stretch of the pattern outside the brackets, rendered as a pattern of
\* its own
RenderedAlone(p, d) ==
  IF p = << >> THEN << >> ELSE compiled(buildParts(p), d)

\* the pattern from index start on, read up to index i: each span gives its
\* text without the brackets, the stretches between the spans are rendered
\* as patterns
RECURSIVE SpansVerbatim(_, _, _, _)
SpansVerbatim(p, start, i, d) ==
  IF i >= Len(p) THEN RenderedAlone(slice(p, start, Len(p)), d)
  ELSE IF IsSpanStart(p, i)
  THEN RenderedAlone(slice(p, start, i), d)
         \o slice(p, i + 1, SpanEnd(p, i))
         \o SpansVerbatim(p, SpanEnd(p, i) + 1, SpanEnd(p, i) + 1, d)
  ELSE SpansVerbatim(p, start, i + 1, d)

(* C25. Each bracketed span [text] of a pattern is rendered as its text      *)
(* with the brackets removed and is never read as tokens; the pattern       *)
(* outside the brackets is rendered as tokens.                              *)
C25_BracketsAreLiteral ==
  (res.op = "format" /\ res.err = "none")
    => res.text = SpansVerbatim(expanded(res.arg), 0, 0, heap[res.in])

\* '[YYYY] YYYY' renders 'YYYY' and the year
C25_Witness ==
  /\ res.op = "format"
  /\ res.arg = <<"[", "Y", "Y", "Y", "Y", "]", " ", "Y", "Y", "Y", "Y">>
  /\ heap[res.in].year = 2025
  /\ res.text = <<"Y", "Y", "Y", "Y", " ", "2", "0", "2", "5">>

(* C26. format(d, p) returns a string, and does not fail, for every value d  *)
(* and every non-empty pattern string p.                                    *)
C26_FormatNeverFails ==
  (res.op = "format" /\ res.arg # << >>) => res.err = "none"

\* the known tokens that occur in p at index i
TokensAt(p, i) ==
  { t \in { TokenKeys[k] : k \in DOMAIN TokenKeys } : OccursAt(p, i, t) }

LongestTokenAt(p, i) ==
  CHOOSE t \in TokensAt(p, i) : \A u \in TokensAt(p, i) : Len(u) <= Len(t)

\* the tokens of p read from index i on: spans are passed over, and at each
\* index outside them the longest token that occurs there is taken
RECURSIVE LongestMatchTokens(_, _)
LongestMatchTokens(p, i) ==
  IF i >= Len(p) THEN << >>
  ELSE IF IsSpanStart(p, i) THEN LongestMatchTokens(p, SpanEnd(p, i) + 1)
  ELSE IF TokensAt(p, i) = {} THEN LongestMatchTokens(p, i + 1)
  ELSE <<LongestTokenAt(p, i)>>
         \o LongestMatchTokens(p, i + Len(LongestTokenAt(p, i)))

\* the tokens of the handlers of a compiled formatter, in order
RECURSIVE HandlerTokens(_)
HandlerTokens(parts) ==
  IF parts = << >> THEN << >>
  ELSE (IF Head(parts).handler THEN <<Head(parts).text>> ELSE << >>)
         \o HandlerTokens(Tail(parts))

(* C27. Outside bracketed spans the pattern is scanned left to right and at  *)
(* each position the longest known token that occurs there is consumed:     *)
(* the handlers of the compiled formatter are those tokens, in order.       *)
C27_LongestTokenFirst ==
  (res.op = "format" /\ res.err = "none")
    => HandlerTokens(cacheGet(formatterCache, expanded(res.arg)))
         = LongestMatchTokens(expanded(res.arg), 0)

\* 'MMMMM' renders the full month name and the bare month number
C27_Witness ==
  /\ res.op = "format"
  /\ res.arg = <<"M", "M", "M", "M", "M">>
  /\ res.text = MONTH_NAMES[heap[res.in].month]
                  \o NumToString(heap[res.in].month)


\* two callers that have compiled the same key hold the same formatter, the
\* one compiled from the key in full, and the cache holds one entry of the
\* key, with that formatter
SameCompleteFormatter ==
  \A a \in Callers, b \in Callers :
    (/\ callers[a].pc = "done"
     /\ callers[b].pc = "done"
     /\ callers[a].formatStr = callers[b].formatStr)
      => /\ callers[a].parts = callers[b].parts
         /\ callers[a].parts = buildParts(callers[a].formatStr)
         /\ { e \in formatterCache : e.key = callers[a].formatStr }
              = { [key |-> callers[a].formatStr, parts |-> callers[a].parts] }

(* C24. When two callers compile the same key, neither gets a torn or        *)
(* partly built formatter, both get formatters of the same output, the      *)
(* cache ends with one complete entry of the key, and the cache is the only *)
(* shared mutable state that the compile step reads or writes: no step of   *)
(* a compile changes other shared state.                                    *)
C24_CacheIsOnlySharedState ==
  /\ []SameCompleteFormatter
  /\ [][tokenPatternLastIndex' = tokenPatternLastIndex]_vars

====
